---- MODULE Spec2Model ----
(***************************************************************************)
(* Model of the unified message-processing pipeline of whatsappAgent:      *)
(* the two gateway routers (routers/meta_router.py, routers/wpp_router.py),*)
(* the shared processor (services/message_processor.py), the send clients  *)
(* and the Sheets persistence (google_drive_service.py).                   *)
(*                                                                         *)
(* Strings are sequences of one-character strings.  A literal message text *)
(* of the program (a fixed reply, a fallback summary) is one element that  *)
(* carries the literal.                                                    *)
(***************************************************************************)
EXTENDS Naturals, Sequences, FiniteSets, TLC

VARIABLES
  clientsFile,     \* the JSON object stored in CLIENTS_FILE: its entries, in order
  envWhitelist,    \* entries of os.getenv('WHITELIST_NUMBERS') after split(',')
  client_names,    \* google_drive_service._client_names (loaded at import)
  spreadsheetId,   \* google_drive_service.SPREADSHEET_ID is set
  sheets_service,  \* the singleton _sheets_service: "unset", "none" or "ready"
  pc,              \* position of the background worker
  gateway,         \* router that owns the current webhook body
  remaining,       \* messages of a Meta body not yet visited by the loop
  authSubject,     \* argument of the last is_whitelisted call: Str(s) or None
  authResult,      \* its outcome: "unset", "true", "false", "raise"
  args,            \* arguments of the current process_* call
  msg_data,        \* fields the router has read of the body at hand (or None)
  started,         \* process_* calls started for the body at hand
  response,        \* what the Vertex call of the current run did (or None)
  b2b_data,        \* classification result of the current run (or None)
  drive_result,    \* result of save_b2b_task in the current run
  sends,           \* send callback calls of the current run, in order
  downloads,       \* outcomes of the requests.get calls for audio in the current run
  classifyCalls,   \* get_gemini_b2b_response calls in the current run
  rows,            \* rows appended to the sheet in the current run
  caught,          \* the except clause of process_* ran in the current run
  propagated,      \* an exception left process_* in the current run
  routerStatus,    \* value returned by the last router worker
  httpStatus,      \* status code of the last webhook POST response (0: none yet)
  appendCalls,     \* spreadsheets().values().append calls of the current run
  processed        \* gateway and message id of the process_* calls so far, in order

vars == <<clientsFile, envWhitelist, client_names, spreadsheetId, sheets_service,
          pc, gateway, remaining, authSubject, authResult, args, msg_data, started,
          response,
          b2b_data, drive_result, sends, downloads, classifyCalls, rows,
          caught, propagated, routerStatus, httpStatus, appendCalls,
          processed>>

----------------------------------------------------------------------------
(* Bounds *)

\* longest candidate phone string drawn for is_whitelisted
MaxLen == 3
\* longest registry / override entry drawn for is_whitelisted
MaxKeyLen == 2
\* most messages carried by one Meta webhook body
MaxMsgs == 2
\* process_* calls after which no further webhook request is taken
MaxRuns == 2
\* most calls in a series of send calls
MaxSends == 3

----------------------------------------------------------------------------
(* Strings *)

Digits == {"0", "1", "2", "3", "4", "5", "6", "7", "8", "9"}

\* alphabet of the phone strings drawn for is_whitelisted
Chars == {"1", "2", "+"}

StringsUpTo(n) == UNION {[1..k -> Chars] : k \in 0..n}

\* Python None, where a value may be missing
None == [None |-> TRUE]

\* a string value where None may stand instead
Str(s) == [str |-> s]

IsDigit(c) == c \in Digits

\* re.sub(r'\D', '', s)
StripNonDigits(s) == SelectSeq(s, IsDigit)

\* s.endswith(t)
EndsWith(s, t) ==
  /\ Len(t) <= Len(s)
  /\ SubSeq(s, Len(s) - Len(t) + 1, Len(s)) = t

\* s.startswith(t)
StartsWith(s, t) ==
  /\ Len(t) <= Len(s)
  /\ SubSeq(s, 1, Len(t)) = t

\* t in s
Contains(s, t) ==
  \E i \in 1..(Len(s) + 1) :
    /\ i + Len(t) - 1 <= Len(s)
    /\ SubSeq(s, i, i + Len(t) - 1) = t

\* s.split("@")[0]
RECURSIVE BeforeAt(_)
BeforeAt(s) ==
  IF s = <<>> \/ Head(s) = "@" THEN <<>>
  ELSE <<Head(s)>> \o BeforeAt(Tail(s))

\* s[:n] without the cut
PrefixUncut(s, n) == s

\* s[:n]
Prefix(s, n) == SubSeq(s, 1, IF Len(s) < n THEN Len(s) ELSE n)

\* s[n:]
DropFirst(s, n) == SubSeq(s, n + 1, Len(s))

\* s[:-n]
DropLast(s, n) == SubSeq(s, 1, IF Len(s) < n THEN 0 ELSE Len(s) - n)

----------------------------------------------------------------------------
(* Access control: services/message_processor.py *)

\* the registry as it was when the process started, kept instead of re-read
load_clients_cached == client_names

\* load_clients(): the registry file as it is now (a missing or unreadable
\* file is the empty registry)
load_clients == clientsFile

\* clients.keys()
Keys(clients) == {clients[i].phone : i \in 1..Len(clients)}

\* the test of one registry or override entry against the normalized input
MatchesEntryOneWay(normalized, entry) ==
  LET entry_norm == StripNonDigits(entry)
  IN  EndsWith(normalized, entry_norm)

\* the test by containment anywhere instead of at the end
MatchesEntryContains(normalized, entry) ==
  LET entry_norm == StripNonDigits(entry)
  IN  Contains(normalized, entry_norm) \/ Contains(entry_norm, normalized)

MatchesEntry(normalized, entry) ==
  LET entry_norm == StripNonDigits(entry)
  IN  EndsWith(normalized, entry_norm) \/ EndsWith(entry_norm, normalized)


\* is_whitelisted letting everyone through when nothing is configured
is_whitelisted_open(phone_number) ==
  LET clients == load_clients
      env_whitelist == {envWhitelist[i] : i \in 1..Len(envWhitelist)}
      normalized == StripNonDigits(phone_number)
  IN  \/ (Keys(clients) = {} /\ env_whitelist = {})
      \/ \E client_number \in Keys(clients) : MatchesEntry(normalized, client_number)
      \/ \E allowed \in env_whitelist : MatchesEntry(normalized, allowed)

\* is_whitelisted(phone_number) for a string argument
is_whitelisted(phone_number) ==
  LET clients == load_clients
      env_whitelist == {envWhitelist[i] : i \in 1..Len(envWhitelist)}
      normalized == StripNonDigits(phone_number)
  IN  \/ \E client_number \in Keys(clients) : MatchesEntry(normalized, client_number)
      \/ \E allowed \in env_whitelist : MatchesEntry(normalized, allowed)

BoolStr(b) == IF b THEN "true" ELSE "false"

----------------------------------------------------------------------------
(* Classifier response decoding: services/message_processor.py *)

\* A response text is a sequence of characters.  A JSON document is written
\* with one element per token: "{" member ... "}" for an object, where a
\* member token stands for one "key": value pair (MemberTok), "[" "]" for an
\* array, "7" for a number, "null", and "\"x\"" for a JSON string.  "x" is a
\* character of free text, " " is whitespace.

ShortSummary == <<"s", "h", "o", "r", "t">>
\* a summary one character longer than the cut of the fallback path
LongSummary == [i \in 1..201 |-> "s"]
SomeAction == <<"d", "o">>

\* the "key": value pair a member token stands for
MemberTok ==
  [ i_NewTask  |-> <<"intent", "New Task">>,
    i_Revision |-> <<"intent", "Revision">>,
    i_Inquiry  |-> <<"intent", "Inquiry">>,
    i_Urgent   |-> <<"intent", "Urgent">>,
    i_Noise    |-> <<"intent", "Noise">>,
    i_Bogus    |-> <<"intent", "Complaint">>,
    p_High     |-> <<"priority", "High">>,
    p_Medium   |-> <<"priority", "Medium">>,
    p_Low      |-> <<"priority", "Low">>,
    p_Bogus    |-> <<"priority", "Critical">>,
    s_Empty    |-> <<"summary", <<>> >>,
    s_Short    |-> <<"summary", ShortSummary>>,
    s_Long     |-> <<"summary", LongSummary>>,
    a_Empty    |-> <<"client_action", <<>> >>,
    a_Some     |-> <<"client_action", SomeAction>>,
    l_Hebrew   |-> <<"original_language", "Hebrew">> ]

\* d[k] = v on a dict
Put(d, k, v) == [x \in (DOMAIN d) \cup {k} |-> IF x = k THEN v ELSE d[x]]

EmptyDict == [x \in {} |-> TRUE]

\* the dict built from a run of member tokens (a later duplicate key wins)
RECURSIVE MembersToDict(_, _)
MembersToDict(toks, acc) ==
  IF toks = <<>> THEN acc
  ELSE LET kv == MemberTok[Head(toks)]
       IN  MembersToDict(Tail(toks), Put(acc, kv[1], kv[2]))

\* json.loads(text): [ok |-> FALSE] is json.JSONDecodeError
json_loads(text) ==
  IF /\ Len(text) >= 2
     /\ text[1] = "{"
     /\ text[Len(text)] = "}"
     /\ \A i \in 2..(Len(text) - 1) : text[i] \in DOMAIN MemberTok
  THEN [ok |-> TRUE, kind |-> "object",
        val |-> MembersToDict(SubSeq(text, 2, Len(text) - 1), EmptyDict)]
  ELSE IF text = <<"[", "]">> THEN [ok |-> TRUE, kind |-> "array"]
  ELSE IF text = <<"7">> THEN [ok |-> TRUE, kind |-> "number"]
  ELSE IF text = <<"null">> THEN [ok |-> TRUE, kind |-> "null"]
  ELSE IF text = <<"\"x\"">> THEN [ok |-> TRUE, kind |-> "string"]
  ELSE [ok |-> FALSE]

\* s.strip()
RECURSIVE LStrip(_)
LStrip(s) == IF s # <<>> /\ Head(s) = " " THEN LStrip(Tail(s)) ELSE s

RECURSIVE RStrip(_)
RStrip(s) ==
  IF s # <<>> /\ s[Len(s)] = " " THEN RStrip(SubSeq(s, 1, Len(s) - 1)) ELSE s

Strip(s) == RStrip(LStrip(s))

\* the Markdown fence markers; "#" is the backquote character
FenceJson == <<"#", "#", "#", "j", "s", "o", "n">>
Fence == <<"#", "#", "#">>

valid_intents == {"New Task", "Revision", "Inquiry", "Urgent", "Noise"}
valid_priorities == {"High", "Medium", "Low"}
required_fields == <<"intent", "priority", "summary", "client_action">>

SummaryCap == 200
RawResponseCap == 1000

\* the fallback dict of parse_b2b_json_response
fallback ==
  [ intent            |-> "Noise",
    priority          |-> "Low",
    summary           |-> <<"Could not parse message">>,
    client_action     |-> <<"Manual review required">>,
    original_language |-> "Unknown",
    transcription     |-> <<>>,
    parse_error       |-> FALSE,
    raw_response      |-> <<>> ]

\* the loop over required_fields substituting an empty value
RECURSIVE FillRequiredEmpty(_, _)
FillRequiredEmpty(parsed, fields) ==
  IF fields = <<>> THEN parsed
  ELSE LET field == Head(fields)
       IN  FillRequiredEmpty(IF field \notin DOMAIN parsed
                             THEN Put(parsed, field,
                                      IF field \in {"intent", "priority"} THEN ""
                                      ELSE <<>>)
                             ELSE parsed,
                             Tail(fields))

\* the loop over required_fields
RECURSIVE FillRequired(_, _)
FillRequired(parsed, fields) ==
  IF fields = <<>> THEN parsed
  ELSE LET field == Head(fields)
       IN  FillRequired(IF field \notin DOMAIN parsed
                        THEN Put(parsed, field, fallback[field])
                        ELSE parsed,
                        Tail(fields))

\* the validation of parsed["intent"]
ValidateIntentKeep(parsed) == parsed

\* the validation of parsed["intent"] followed by a cut of the summary
ValidateIntentCutSummary(parsed) ==
  LET q == IF parsed["intent"] \notin valid_intents
           THEN Put(parsed, "intent", "Noise")
           ELSE parsed
  IN  Put(q, "summary", SubSeq(q["summary"], 1,
                               IF Len(q["summary"]) < 200 THEN Len(q["summary"]) ELSE 200))

ValidateIntent(parsed) ==
  IF parsed["intent"] \notin valid_intents
  THEN Put(parsed, "intent", "Noise")
  ELSE parsed

\* an invalid priority answered with the whole fallback
ValidatePriorityWholesale(parsed) ==
  IF parsed["priority"] \notin valid_priorities
  THEN [fallback EXCEPT !.priority = "Medium"]
  ELSE parsed

\* the validation of parsed["priority"]
ValidatePriority(parsed) ==
  IF parsed["priority"] \notin valid_priorities
  THEN Put(parsed, "priority", "Medium")
  ELSE parsed

\* cleaned: the text with surrounding whitespace and code fences removed
CleanResponse(response_text) ==
  LET c0 == Strip(response_text)
      c1 == IF StartsWith(c0, FenceJson) THEN DropFirst(c0, 7)
            ELSE IF StartsWith(c0, Fence) THEN DropFirst(c0, 3)
            ELSE c0
      c2 == IF EndsWith(c1, Fence) THEN DropLast(c1, 3) ELSE c1
  IN  Strip(c2)

\* parse_b2b_json_response(response_text): [exc |-> "none", val |-> dict],
\* or [exc |-> "TypeError"] when an exception other than JSONDecodeError
\* leaves the function (the decoded value is not a dict)
parse_b2b_json_response(response_text) ==
  IF response_text = <<>>
  THEN [exc |-> "none", val |-> [fallback EXCEPT !.parse_error = TRUE]]
  ELSE
    LET decoded == json_loads(CleanResponse(response_text))
    IN  IF ~decoded.ok
        THEN [exc |-> "none",
              val |-> [fallback EXCEPT
                         !.parse_error = TRUE,
                         !.raw_response = Prefix(response_text, RawResponseCap),
                         !.summary = Prefix(response_text, SummaryCap),
                         !.client_action =
                            <<"Manual review required - AI response was not valid JSON">>]]
        ELSE IF decoded.kind # "object"
        THEN [exc |-> "TypeError"]
        ELSE [exc |-> "none",
              val |-> Put(ValidatePriority(ValidateIntent(
                            FillRequired(decoded.val, required_fields))),
                          "parse_error", FALSE)]

\* get_gemini_b2b_response: vertex is what the token fetch and the HTTP call
\* do, [outcome |-> ..., text |-> ...]; every exception is caught and None
\* returned
VertexFailures == {"token_error", "no_token", "post_error", "http_error", "bad_shape"}

get_gemini_b2b_response(vertex) ==
  IF vertex.outcome \in VertexFailures THEN None
  ELSE LET r == parse_b2b_json_response(vertex.text)
       IN  IF r.exc # "none" THEN None ELSE r.val

----------------------------------------------------------------------------
(* Outbound send: routers/meta_router.py, services/wpp_client.py *)

\* what the provider call of a send can do
MetaNet == {"no_token", "conn_error", "http_200", "http_other"}
WppNet == {"conn_error", "http_200_success", "http_200_other", "http_503", "http_other"}


\* send_meta_message with the try/except removed
send_meta_message_uncaught(net) ==
  IF net = "no_token" THEN "false"
  ELSE IF net = "conn_error" THEN "raise"
  ELSE IF net = "http_200" THEN "true"
  ELSE "false"

\* send_meta_message: "true"/"false" is the returned bool
send_meta_message(net) ==
  IF net = "no_token" THEN "false"
  ELSE IF net = "conn_error" THEN "false"      \* except Exception: return False
  ELSE IF net = "http_200" THEN "true"
  ELSE "false"

\* send_wpp_message with the except clauses removed
send_wpp_message_uncaught(net) ==
  IF net = "conn_error" THEN "raise"
  ELSE IF net = "http_200_success" THEN "true"
  ELSE "false"

\* send_wpp_message
send_wpp_message(net) ==
  IF net = "conn_error" THEN "false"           \* except ConnectionError: return False
  ELSE IF net = "http_200_success" THEN "true"
  ELSE "false"

SendNet(gw) == IF gw = "Meta" THEN MetaNet ELSE WppNet

\* send_reply_func as the routers bind it
send_reply_func(gw, net) ==
  IF gw = "Meta" THEN send_meta_message(net) ELSE send_wpp_message(net)

----------------------------------------------------------------------------
(* Persistence: google_drive_service.py *)

ClientNameSuffix == 9
RowSummaryCap == 500

\* s[-n:]
Last(s, n) == SubSeq(s, (IF Len(s) < n THEN 0 ELSE Len(s) - n) + 1, Len(s))

\* the first entry of _client_names, in file order, that the loop matches
RECURSIVE FirstPartialMatch(_, _)
FirstPartialMatch(entries, normalized) ==
  IF entries = <<>> THEN <<>>
  ELSE LET stored_phone == Head(entries).phone
       IN  IF \/ EndsWith(normalized, Last(stored_phone, ClientNameSuffix))
              \/ EndsWith(stored_phone, Last(normalized, ClientNameSuffix))
           THEN Head(entries).name
           ELSE FirstPartialMatch(Tail(entries), normalized)

\* get_client_name(phone_number)
get_client_name(phone_number) ==
  IF phone_number = <<>> THEN <<>>
  ELSE LET normalized == StripNonDigits(phone_number)
           exact == {i \in 1..Len(client_names) : client_names[i].phone = normalized}
       IN  IF exact # {}
           THEN client_names[CHOOSE i \in exact : TRUE].name
           ELSE FirstPartialMatch(client_names, normalized)

\* d.get(k, default)
Get(d, k, default) == IF k \in DOMAIN d THEN d[k] ELSE default


\* the row with the Media Link column left out when there is no media
BuildRowCompact(phone_number, task_data) ==
  << "now",
     get_client_name(phone_number),
     phone_number,
     Get(task_data, "intent", "Unknown"),
     Get(task_data, "priority", "Medium"),
     Prefix(Get(task_data, "summary", <<>>), RowSummaryCap),
     Get(task_data, "client_action", <<>>) >>
  \o (IF Get(task_data, "media_url", <<>>) # <<>>
      THEN <<Get(task_data, "media_url", <<>>)>> ELSE <<>>)
  \o << Get(task_data, "channel", "Unknown") >>

\* the row save_b2b_task builds
BuildRow(phone_number, task_data) ==
  << "now",
     get_client_name(phone_number),
     phone_number,
     Get(task_data, "intent", "Unknown"),
     Get(task_data, "priority", "Medium"),
     Prefix(Get(task_data, "summary", <<>>), RowSummaryCap),
     Get(task_data, "client_action", <<>>),
     Get(task_data, "media_url", <<>>),
     Get(task_data, "channel", "Unknown") >>

\* GoogleSheetsService._initialize_service: fs is whether a service account
\* file is found and the client can be built
initialize_service(fs) == IF fs = "ok" THEN "ready" ELSE "none"


\* get_drive_service building a new GoogleSheetsService on every call
get_drive_service_fresh(fs) == initialize_service(fs)

\* get_drive_service(): the singleton, created on first use
get_drive_service(fs) ==
  IF sheets_service = "unset" THEN initialize_service(fs) ELSE sheets_service

\* save_b2b_task with the row appended although the call failed
save_b2b_task_partial(service, phone_number, task_data, api) ==
  IF service # "ready"
  THEN [result |-> [success |-> FALSE, error |-> "Sheets service not initialized"],
        appended |-> <<>>, calls |-> 0]
  ELSE IF ~spreadsheetId
  THEN [result |-> [success |-> FALSE, error |-> "SPREADSHEET_ID not set"],
        appended |-> <<>>, calls |-> 0]
  ELSE [result |-> [success |-> FALSE, error |-> "append failed"],
        appended |-> <<BuildRow(phone_number, task_data)>>, calls |-> 1]


\* save_b2b_task with a failed append call made a second time
save_b2b_task_retry(service, phone_number, task_data, api) ==
  IF service # "ready"
  THEN [result |-> [success |-> FALSE, error |-> "Sheets service not initialized"],
        appended |-> <<>>, calls |-> 0]
  ELSE IF ~spreadsheetId
  THEN [result |-> [success |-> FALSE, error |-> "SPREADSHEET_ID not set"],
        appended |-> <<>>, calls |-> 0]
  ELSE IF api = "ok"
  THEN [result |-> [success |-> TRUE, doc_url |-> "sheet url"],
        appended |-> <<BuildRow(phone_number, task_data)>>, calls |-> 1]
  ELSE [result |-> [success |-> FALSE, error |-> "append failed"],
        appended |-> <<>>, calls |-> 2]

\* save_b2b_task(phone_number, task_data): its return value and the rows the
\* append call adds to the sheet; api is what the append call does
save_b2b_task(service, phone_number, task_data, api) ==
  IF service # "ready"
  THEN [result |-> [success |-> FALSE, error |-> "Sheets service not initialized"],
        appended |-> <<>>, calls |-> 0]
  ELSE IF ~spreadsheetId
  THEN [result |-> [success |-> FALSE, error |-> "SPREADSHEET_ID not set"],
        appended |-> <<>>, calls |-> 0]
  ELSE IF api = "ok"
  THEN [result |-> [success |-> TRUE, doc_url |-> "sheet url"],
        appended |-> <<BuildRow(phone_number, task_data)>>, calls |-> 1]
  ELSE [result |-> [success |-> FALSE, error |-> "append failed"],
        appended |-> <<>>, calls |-> 1]

----------------------------------------------------------------------------
(* Reply composition: services/message_processor.py *)

intent_emoji ==
  [x \in valid_intents |->
     CASE x = "New Task" -> "NEW"
       [] x = "Revision" -> "CYCLE"
       [] x = "Inquiry"  -> "QUESTION"
       [] x = "Urgent"   -> "SIREN"
       [] x = "Noise"    -> "SPEECH"]

\* build_reply_message with the status line left out on a failed save
build_reply_message_nostatus(data, result) ==
  LET intent == Get(data, "intent", "Noise")
      action == Get(data, "client_action", <<>>)
  IN  <<[part |-> "header",
         emoji |-> IF intent \in DOMAIN intent_emoji THEN intent_emoji[intent] ELSE "MEMO",
         intent |-> Get(data, "intent", "Received"),
         priority |-> Get(data, "priority", "Medium")],
        [part |-> "summary", text |-> Get(data, "summary", <<"Message logged">>)]>>
      \o (IF action # <<>> THEN <<[part |-> "action", text |-> action]>> ELSE <<>>)
      \o (IF Get(result, "success", FALSE)
          THEN <<[part |-> "saved", link |-> Get(result, "doc_url", "None")]>>
          ELSE <<>>)


\* build_reply_message with the action line written whatever client_action is
build_reply_message_action_always(data, result) ==
  LET intent == Get(data, "intent", "Noise")
      action == Get(data, "client_action", <<>>)
  IN  <<[part |-> "header",
         emoji |-> IF intent \in DOMAIN intent_emoji THEN intent_emoji[intent] ELSE "MEMO",
         intent |-> Get(data, "intent", "Received"),
         priority |-> Get(data, "priority", "Medium")],
        [part |-> "summary", text |-> Get(data, "summary", <<"Message logged">>)],
        [part |-> "action", text |-> action]>>
      \o (IF Get(result, "success", FALSE)
          THEN <<[part |-> "saved", link |-> Get(result, "doc_url", "None")]>>
          ELSE <<[part |-> "save_failed"]>>)

\* build_reply_message(b2b_data, drive_result): reply_parts, in order
build_reply_message(data, result) ==
  LET intent == Get(data, "intent", "Noise")
      action == Get(data, "client_action", <<>>)
  IN  <<[part |-> "header",
         emoji |-> IF intent \in DOMAIN intent_emoji THEN intent_emoji[intent] ELSE "MEMO",
         intent |-> Get(data, "intent", "Received"),
         priority |-> Get(data, "priority", "Medium")],
        [part |-> "summary", text |-> Get(data, "summary", <<"Message logged">>)]>>
      \o (IF action # <<>> THEN <<[part |-> "action", text |-> action]>> ELSE <<>>)
      \o (IF Get(result, "success", FALSE)
          THEN <<[part |-> "saved", link |-> Get(result, "doc_url", "None")]>>
          ELSE <<[part |-> "save_failed"]>>)

----------------------------------------------------------------------------
(* State *)

envVars == <<clientsFile, envWhitelist, client_names, spreadsheetId>>
routerVars == <<gateway, remaining, authSubject, authResult, args, msg_data, started>>

Idle == <<"router", "idle">>
\* a background task added by a POST handler and not yet started
Queued(gw) == <<"queued", gw>>

\* the observation of one message's handling starts empty
ResetRun ==
  /\ response' = None
  /\ b2b_data' = None
  /\ drive_result' = None
  /\ sends' = <<>>
  /\ downloads' = <<>>
  /\ classifyCalls' = 0
  /\ rows' = <<>>
  /\ appendCalls' = 0
  /\ caught' = FALSE
  /\ propagated' = FALSE

\* the identifiers and texts the pipeline is run on
RegisteredKey == <<"5", "1">>
OverrideKey == <<"7", "7">>
AuthNumber == <<"9", "5", "1">>
UnknownNumber == <<"9", "7", "7">>
AtCUs == <<"@", "c", ".", "u", "s">>
AtGUs == <<"@", "g", ".", "u", "s">>
AuthJid == AuthNumber \o AtCUs
UnknownJid == UnknownNumber \o AtCUs
GroupJid == <<"1", "2", "0">> \o AtGUs
HttpUrl == <<"h", "t", "t", "p", ":", "a">>
DataUri == <<"d", "a", "t", "a", ":", "Q">>
Wamid == <<"w", "a", "m", "i", "d">>

Registries ==
  { <<>>, <<[phone |-> RegisteredKey, name |-> <<"A", "c", "m", "e">>]>> }

\* a message text as the router hands it on: a str, or a list (is_str FALSE)
Texts ==
  { [s |-> <<>>, is_str |-> TRUE],
    [s |-> <<" ">>, is_str |-> TRUE],
    [s |-> <<"h", "i">>, is_str |-> TRUE],
    [s |-> <<"h", "i">>, is_str |-> FALSE] }

\* response texts the Vertex call returns in the pipeline
PipelineTexts ==
  { <<>>,
    <<"x", "x">>,
    <<"[", "]">>,
    <<"{", "i_Revision", "p_Medium", "s_Short", "a_Some", "}">>,
    <<"{", "i_Urgent", "p_High", "s_Short", "a_Empty", "}">>,
    FenceJson \o <<"{", "i_Bogus", "s_Short", "}">> \o Fence }

VertexOutcomes ==
  {[outcome |-> f, text |-> <<>>] : f \in VertexFailures}
  \cup {[outcome |-> "ok", text |-> t] : t \in PipelineTexts}

TypeOK ==
  /\ spreadsheetId \in BOOLEAN
  /\ sheets_service \in {"unset", "none", "ready"}
  /\ remaining \in 0..MaxMsgs
  /\ started \in 0..MaxMsgs
  /\ authResult \in {"unset", "true", "false", "raise"}
  /\ downloads \in Seq({"status_200", "status_other", "raise", "no_response"})
  /\ classifyCalls \in Nat
  /\ caught \in BOOLEAN
  /\ propagated \in BOOLEAN
  /\ httpStatus \in {0, 200}
  /\ appendCalls \in Nat
  /\ processed \in Seq([gateway : {"Meta", "WPP"}, wamid : {Wamid}])

Init ==
  /\ clientsFile \in Registries
  /\ envWhitelist \in {<<>>, <<OverrideKey>>}
  /\ client_names = clientsFile
  /\ spreadsheetId \in BOOLEAN
  /\ sheets_service = "unset"
  /\ pc = Idle
  /\ gateway = "none"
  /\ remaining = 0
  /\ authSubject = None
  /\ authResult = "unset"
  /\ args = None
  /\ msg_data = None
  /\ started = 0
  /\ response = None
  /\ b2b_data = None
  /\ drive_result = None
  /\ sends = <<>>
  /\ downloads = <<>>
  /\ classifyCalls = 0
  /\ rows = <<>>
  /\ caught = FALSE
  /\ propagated = FALSE
  /\ routerStatus = "none"
  /\ httpStatus = 0
  /\ appendCalls = 0
  /\ processed = <<>>

----------------------------------------------------------------------------
(* The pipeline: process_text_message and process_voice_note *)

\* one call of the send callback: the call is logged, r is its outcome
SendLogged(kind, body) ==
  sends' = Append(sends, [to |-> args.sender_id, kind |-> kind, body |-> body])

\* process_* returning to the dispatch of the same message
ReturnToDispatch ==
  /\ pc' = IF gateway = "Meta" THEN <<"meta", "dispatch">> ELSE Idle
  /\ routerStatus' = IF gateway = "Meta" THEN routerStatus ELSE "success"

\* process_* returns to the router worker that called it
ReturnToRouter ==
  /\ pc' = IF gateway = "Meta" THEN <<"meta", "loop">> ELSE Idle
  /\ routerStatus' = IF gateway = "Meta" THEN routerStatus ELSE "success"

\* an exception leaves process_*: the router worker's except clause ends it
RaiseToRouter ==
  /\ pc' = Idle
  /\ routerStatus' = "error"
  /\ propagated' = TRUE

\* the metadata both functions add to the classification
WithMetadata(data, k) ==
  LET meta == [ timestamp        |-> "now",
                wamid            |-> args.wamid,
                original_message |-> IF k = "ptm" THEN args.text.s
                                     ELSE Get(data, "transcription", <<"[Voice Message]">>),
                media_url        |-> IF k = "ptm" THEN <<>> ELSE args.audio_url,
                is_group         |-> args.is_group,
                group_name       |-> args.group_name,
                channel          |-> args.gateway ]
  IN  [x \in (DOMAIN data) \cup (DOMAIN meta) |->
         IF x \in DOMAIN meta THEN meta[x] ELSE data[x]]


\* the start of process_* without the check for blank text
StepAckNoBlankCheck(k) ==
  /\ pc = <<k, "start">>
  /\ IF k = "ptm" /\ ~args.text.is_str
     THEN /\ caught' = TRUE
          /\ pc' = <<k, "except">>
          /\ UNCHANGED <<sends, routerStatus>>
     ELSE \E net \in SendNet(gateway) :
            /\ SendLogged("ack", <<>>)
            /\ IF send_reply_func(gateway, net) = "raise"
               THEN caught' = TRUE /\ pc' = <<k, "except">>
               ELSE caught' = caught /\ pc' = <<k, IF k = "ptm" THEN "classify" ELSE "download">>
            /\ UNCHANGED routerStatus
  /\ UNCHANGED <<envVars, httpStatus, processed, routerVars, sheets_service, response, b2b_data,
                 drive_result, downloads, classifyCalls, rows, appendCalls, propagated>>

\* the acknowledgment, preceded in process_text_message by the empty check
StepAck(k) ==
  /\ pc = <<k, "start">>
  /\ IF k = "ptm" /\ ~args.text.is_str
     THEN \* text_content.strip() raises AttributeError
          /\ caught' = TRUE
          /\ pc' = <<k, "except">>
          /\ UNCHANGED <<sends, routerStatus>>
     ELSE IF k = "ptm" /\ Strip(args.text.s) = <<>>
     THEN /\ ReturnToRouter
          /\ UNCHANGED <<sends, caught>>
     ELSE \E net \in SendNet(gateway) :
            /\ SendLogged("ack", <<>>)
            /\ IF send_reply_func(gateway, net) = "raise"
               THEN caught' = TRUE /\ pc' = <<k, "except">>
               ELSE caught' = caught /\ pc' = <<k, IF k = "ptm" THEN "classify" ELSE "download">>
            /\ UNCHANGED routerStatus
  /\ UNCHANGED <<envVars, httpStatus, processed, routerVars, sheets_service, response, b2b_data,
                 drive_result, downloads, classifyCalls, rows, appendCalls, propagated>>

\* what the media server does with the download request
DownloadNet == {"status_200", "status_other", "raise", "no_response"}

\* process_voice_note inside a requests.get call that has not returned
Blocked == <<"pvn", "blocked">>

\* requests.get(audio_url): a URL requests has no adapter for raises
requests_get(url, net) ==
  IF ~StartsWith(url, <<"h", "t", "t", "p">>) THEN "raise" ELSE net

\* the audio download with the status check left out
StepDownloadUnchecked ==
  /\ pc = <<"pvn", "download">>
  /\ \E net \in {"status_200", "status_other", "raise"} :
       LET got == requests_get(args.audio_url, net)
       IN  /\ downloads' = Append(downloads, got)
           /\ IF got = "raise"
              THEN caught' = TRUE /\ pc' = <<"pvn", "except">>
              ELSE caught' = caught /\ pc' = <<"pvn", "classify">>
  /\ UNCHANGED <<envVars, httpStatus, processed, routerVars, sheets_service, response, b2b_data,
                 drive_result, sends, classifyCalls, rows, appendCalls, propagated,
                 routerStatus>>

\* the audio download of process_voice_note; the call is made without a
\* timeout, so it does not return while the server sends no response
StepDownload ==
  /\ pc = <<"pvn", "download">>
  /\ \E net \in DownloadNet, snet \in SendNet(gateway) :
       LET got == requests_get(args.audio_url, net)
       IN  /\ downloads' = Append(downloads, got)
           /\ IF got = "no_response"
              THEN /\ pc' = Blocked
                   /\ UNCHANGED <<sends, caught, routerStatus>>
              ELSE IF got = "raise"
              THEN /\ caught' = TRUE
                   /\ pc' = <<"pvn", "except">>
                   /\ UNCHANGED <<sends, routerStatus>>
              ELSE IF got # "status_200"
              THEN /\ SendLogged("download_failed", <<>>)
                   /\ IF send_reply_func(gateway, snet) = "raise"
                      THEN caught' = TRUE /\ pc' = <<"pvn", "except">>
                           /\ UNCHANGED routerStatus
                      ELSE caught' = caught /\ ReturnToRouter
              ELSE /\ pc' = <<"pvn", "classify">>
                   /\ UNCHANGED <<sends, caught, routerStatus>>
  /\ UNCHANGED <<envVars, httpStatus, processed, routerVars, sheets_service, response, b2b_data,
                 drive_result, classifyCalls, rows, appendCalls, propagated>>

\* the classification call with the return after the failure reply left out
StepClassifyNoReturn(k) ==
  /\ pc = <<k, "classify">>
  /\ classifyCalls' = classifyCalls + 1
  /\ \E vertex \in VertexOutcomes :
       LET data == get_gemini_b2b_response(vertex)
       IN  /\ response' = vertex
           /\ IF data = None
              THEN b2b_data' = None /\ SendLogged("analyze_failed", <<>>)
              ELSE b2b_data' = WithMetadata(data, k) /\ UNCHANGED sends
           /\ pc' = <<k, "save">>
  /\ UNCHANGED <<envVars, httpStatus, processed, routerVars, sheets_service, drive_result, downloads,
                 rows, appendCalls, propagated, caught, routerStatus>>

\* the classification call returning on failure without a reply
StepClassifySilent(k) ==
  /\ pc = <<k, "classify">>
  /\ classifyCalls' = classifyCalls + 1
  /\ \E vertex \in VertexOutcomes :
       LET data == get_gemini_b2b_response(vertex)
       IN  /\ response' = vertex
           /\ IF data = None
              THEN b2b_data' = None /\ ReturnToRouter
              ELSE /\ b2b_data' = WithMetadata(data, k)
                   /\ pc' = <<k, "save">>
                   /\ UNCHANGED routerStatus
  /\ UNCHANGED <<envVars, httpStatus, processed, routerVars, sheets_service, drive_result, downloads,
                 rows, appendCalls, propagated, caught, sends>>

\* the classification call and the check of its result
StepClassify(k) ==
  /\ pc = <<k, "classify">>
  /\ classifyCalls' = classifyCalls + 1
  /\ \E vertex \in VertexOutcomes, snet \in SendNet(gateway) :
       LET data == get_gemini_b2b_response(vertex)
       IN  /\ response' = vertex
           /\ IF data = None
              THEN /\ b2b_data' = None
                   /\ SendLogged("analyze_failed", <<>>)
                   /\ IF send_reply_func(gateway, snet) = "raise"
                      THEN caught' = TRUE /\ pc' = <<k, "except">>
                           /\ UNCHANGED routerStatus
                      ELSE caught' = caught /\ ReturnToRouter
              ELSE /\ b2b_data' = WithMetadata(data, k)
                   /\ pc' = <<k, "save">>
                   /\ UNCHANGED <<sends, caught, routerStatus>>
  /\ UNCHANGED <<envVars, httpStatus, processed, routerVars, sheets_service, drive_result, downloads,
                 rows, appendCalls, propagated>>

\* the final reply built without the persistence call having been made
StepSaveSkipped(k) ==
  /\ pc = <<k, "save">>
  /\ pc' = <<k, "reply">>
  /\ UNCHANGED <<envVars, httpStatus, processed, routerVars, sheets_service, response, b2b_data,
                 drive_result, sends, downloads, classifyCalls, rows, appendCalls, caught,
                 propagated, routerStatus>>

\* get_drive_service().save_b2b_task(sender_id, b2b_data)
StepSave(k) ==
  /\ pc = <<k, "save">>
  /\ \E fs \in {"ok", "missing"}, api \in {"ok", "error"} :
       LET service == get_drive_service(fs)
           saved == save_b2b_task(service, args.sender_id, b2b_data, api)
       IN  /\ sheets_service' = service
           /\ drive_result' = saved.result
           /\ rows' = rows \o saved.appended
           /\ appendCalls' = appendCalls + saved.calls
  /\ pc' = <<k, "reply">>
  /\ UNCHANGED <<envVars, httpStatus, processed, routerVars, response, b2b_data, sends, downloads,
                 classifyCalls, caught, propagated, routerStatus>>

\* build_reply_message and the final send
StepReply(k) ==
  /\ pc = <<k, "reply">>
  /\ \E snet \in SendNet(gateway) :
       /\ SendLogged("final", build_reply_message(b2b_data, drive_result))
       /\ IF send_reply_func(gateway, snet) = "raise"
          THEN caught' = TRUE /\ pc' = <<k, "except">> /\ UNCHANGED routerStatus
          ELSE caught' = caught /\ ReturnToRouter
  /\ UNCHANGED <<envVars, httpStatus, processed, routerVars, sheets_service, response, b2b_data,
                 drive_result, downloads, classifyCalls, rows, appendCalls, propagated>>

\* the except clause with the exception raised again instead of replied to
StepExceptReraise(k) ==
  /\ pc = <<k, "except">>
  /\ RaiseToRouter
  /\ UNCHANGED <<envVars, httpStatus, processed, routerVars, sheets_service, response, b2b_data,
                 drive_result, sends, downloads, classifyCalls, rows, appendCalls, caught>>


\* the except clause never returning
StepExceptStuck(k) ==
  /\ pc = <<k, "except">>
  /\ UNCHANGED vars

\* except Exception: the error reply
StepExcept(k) ==
  /\ pc = <<k, "except">>
  /\ \E snet \in SendNet(gateway) :
       /\ SendLogged("error", <<>>)
       /\ IF send_reply_func(gateway, snet) = "raise"
          THEN RaiseToRouter
          ELSE ReturnToRouter /\ UNCHANGED propagated
  /\ UNCHANGED <<envVars, httpStatus, processed, routerVars, sheets_service, response, b2b_data,
                 drive_result, downloads, classifyCalls, rows, appendCalls, caught>>

process_text_message ==
  \/ StepAck("ptm")
  \/ StepClassify("ptm")
  \/ StepSave("ptm")
  \/ StepReply("ptm")
  \/ StepExcept("ptm")

process_voice_note ==
  \/ StepAck("pvn")
  \/ StepDownload
  \/ StepClassify("pvn")
  \/ StepSave("pvn")
  \/ StepReply("pvn")
  \/ StepExcept("pvn")

----------------------------------------------------------------------------
(* Meta router: routers/meta_router.py *)

\* get_meta_media_url(media_id): the URL, or <<>> for None
get_meta_media_url(lookup) ==
  IF lookup = "http_200_url" THEN HttpUrl ELSE <<>>

MediaLookups == {"no_token", "http_200_url", "http_200_nourl", "http_other", "raise"}

\* what one message of a Meta body holds besides its sender
MetaContents ==
  {[type |-> "audio", body |-> t] : t \in {[s |-> <<>>, is_str |-> TRUE]}}
  \cup {[type |-> "text", body |-> t] : t \in Texts}
  \cup {[type |-> "image", body |-> t] : t \in {[s |-> <<>>, is_str |-> TRUE]}}

\* the arguments of a process_* call; gateway is the parameter the routers
\* leave at its default
CallArgs(sender_id, text, audio_url, is_group, group_name) ==
  [ sender_id  |-> sender_id,
    text       |-> text,
    audio_url  |-> audio_url,
    is_group   |-> is_group,
    group_name |-> group_name,
    wamid      |-> Wamid,
    gateway    |-> "Unknown" ]

NoText == [s |-> <<>>, is_str |-> TRUE]

\* what the router has read of a body: whether its structure and event are
\* the known ones, how many messages it holds, and of the message at hand
\* the sender fields, the type and the caption
Message(known, n) ==
  [ known |-> known, messages |-> n, from |-> <<>>, isGroupMsg |-> FALSE,
    author |-> <<>>, participant |-> <<>>, sender_obj_id |-> <<>>,
    type |-> "none", caption |-> <<>> ]

\* process_meta_webhook_data up to the loop over the messages
MetaWebhook ==
  /\ pc = Queued("Meta")
  /\ \E object \in {"whatsapp_business_account", "page"}, n \in 0..MaxMsgs :
       IF object # "whatsapp_business_account"
       THEN /\ routerStatus' = "ignored"
            /\ pc' = Idle
            /\ remaining' = 0
            /\ msg_data' = Message(FALSE, 0)
       ELSE /\ routerStatus' = "none"
            /\ pc' = <<"meta", "loop">>
            /\ remaining' = n
            /\ msg_data' = Message(TRUE, n)
  /\ gateway' = "Meta"
  /\ authSubject' = None
  /\ authResult' = "unset"
  /\ args' = None
  /\ started' = 0
  /\ ResetRun
  /\ UNCHANGED <<envVars, httpStatus, processed, sheets_service>>

\* the whitelist check of the loop with every sender let through
MetaAuthorizeAll ==
  /\ pc = <<"meta", "loop">>
  /\ remaining > 0
  /\ remaining' = remaining - 1
  /\ ResetRun
  /\ \E from \in {Str(AuthNumber), Str(UnknownNumber)} :
       /\ authSubject' = from
       /\ msg_data' = [Message(TRUE, msg_data.messages) EXCEPT !.from = from.str]
       /\ authResult' = BoolStr(is_whitelisted(from.str))
       /\ pc' = <<"meta", "dispatch">>
       /\ args' = CallArgs(from.str, NoText, <<>>, FALSE, <<>>)
       /\ UNCHANGED routerStatus
  /\ UNCHANGED <<envVars, httpStatus, processed, sheets_service, gateway, started>>

\* the next message of the loop: its sender and the whitelist check
MetaAuthorize ==
  /\ pc = <<"meta", "loop">>
  /\ remaining > 0
  /\ remaining' = remaining - 1
  /\ ResetRun
  /\ \E from \in {None, Str(AuthNumber), Str(UnknownNumber)} :
       /\ authSubject' = from
       /\ IF from = None
          THEN \* re.sub on None raises TypeError: the worker's except clause
               /\ msg_data' = Message(TRUE, msg_data.messages)
               /\ authResult' = "raise"
               /\ pc' = Idle
               /\ routerStatus' = "error"
               /\ args' = None
          ELSE LET ok == is_whitelisted(from.str)
               IN  /\ msg_data' = [Message(TRUE, msg_data.messages)
                                     EXCEPT !.from = from.str]
                   /\ authResult' = BoolStr(ok)
                   /\ pc' = IF ok THEN <<"meta", "dispatch">> ELSE <<"meta", "loop">>
                   /\ args' = IF ok THEN CallArgs(from.str, NoText, <<>>, FALSE, <<>>)
                              ELSE None
                   /\ UNCHANGED routerStatus
  /\ UNCHANGED <<envVars, httpStatus, processed, sheets_service, gateway, started>>


\* the dispatch with a message id already handed on skipped
MetaDispatchDedup ==
  /\ pc = <<"meta", "dispatch">>
  /\ \E c \in MetaContents :
       LET seen == \E i \in 1..Len(processed) : processed[i].wamid = args.wamid
       IN  /\ msg_data' = [msg_data EXCEPT !.type = c.type]
           /\ IF c.type = "text" /\ ~seen
              THEN /\ args' = [args EXCEPT !.text = c.body]
                   /\ pc' = <<"ptm", "start">>
                   /\ started' = started + 1
              ELSE /\ args' = args
                   /\ pc' = <<"meta", "loop">>
                   /\ started' = started
  /\ processed' = IF started' > started
                  THEN Append(processed, [gateway |-> gateway, wamid |-> args'.wamid])
                  ELSE processed
  /\ UNCHANGED <<envVars, httpStatus, sheets_service, gateway, remaining, authSubject,
                 authResult, response, b2b_data, drive_result, sends, downloads,
                 classifyCalls, rows, appendCalls, caught, propagated, routerStatus>>

\* the message's type decides the call
MetaDispatch ==
  /\ pc = <<"meta", "dispatch">>
  /\ \E c \in MetaContents, lookup \in MediaLookups :
       LET audio_url == get_meta_media_url(lookup)
       IN  /\ msg_data' = [msg_data EXCEPT !.type = c.type]
           /\ IF c.type = "audio"
              THEN IF audio_url # <<>>
                   THEN /\ args' = [args EXCEPT !.audio_url = audio_url]
                        /\ pc' = <<"pvn", "start">>
                        /\ started' = started + 1
                   ELSE /\ args' = args
                        /\ pc' = <<"meta", "loop">>
                        /\ started' = started
              ELSE IF c.type = "text"
              THEN /\ args' = [args EXCEPT !.text = c.body]
                   /\ pc' = <<"ptm", "start">>
                   /\ started' = started + 1
              ELSE /\ args' = args
                   /\ pc' = <<"meta", "loop">>
                   /\ started' = started
  /\ processed' = IF started' > started
                  THEN Append(processed, [gateway |-> gateway, wamid |-> args'.wamid])
                  ELSE processed
  /\ UNCHANGED <<envVars, httpStatus, sheets_service, gateway, remaining, authSubject,
                 authResult, response, b2b_data, drive_result, sends, downloads,
                 classifyCalls, rows, appendCalls, caught, propagated, routerStatus>>

\* the loop is over: return {"status": "success"}
MetaDone ==
  /\ pc = <<"meta", "loop">>
  /\ remaining = 0
  /\ pc' = Idle
  /\ routerStatus' = "success"
  /\ UNCHANGED <<envVars, httpStatus, processed, sheets_service, routerVars, response, b2b_data,
                 drive_result, sends, downloads, classifyCalls, rows, appendCalls, caught,
                 propagated>>

process_meta_webhook_data ==
  \/ MetaWebhook
  \/ MetaAuthorize
  \/ MetaDispatch
  \/ MetaDone

----------------------------------------------------------------------------
(* WPPConnect router: routers/wpp_router.py *)

\* the sender fields of a WPPConnect message (msg_data); <<>> is a missing
\* field (for from, participant and sender.id also an empty one)
WppEnvelope(f, g, a, pt, so) ==
  [from |-> f, isGroupMsg |-> g, author |-> a, participant |-> pt,
   sender_obj_id |-> so]

WppEnvelopes ==
  \* a message without a sender
  {WppEnvelope(<<>>, FALSE, <<>>, <<>>, <<>>)}
  \* direct messages
  \cup {WppEnvelope(f, FALSE, <<>>, <<>>, <<>>) : f \in {AuthJid, UnknownJid}}
  \* group messages, recognised by the JID
  \cup {WppEnvelope(GroupJid, g, a, pt, so) :
          g \in BOOLEAN, a \in {<<>>, AuthJid, UnknownJid}, pt \in {<<>>, AuthJid},
          so \in {<<>>, AuthJid}}
  \* group messages, recognised by isGroupMsg alone
  \cup {WppEnvelope(f, TRUE, a, <<>>, <<>>) :
          f \in {AuthJid, UnknownJid}, a \in {<<>>, AuthJid, UnknownJid}}

\* the fields read after it
WppContents ==
  {[type |-> ty, body |-> NoText, mediaUrl |-> m, caption |-> <<>>] :
      ty \in {"ptt", "audio"}, m \in {<<>>, HttpUrl, DataUri}}
  \cup {[type |-> ty, body |-> t, mediaUrl |-> <<>>, caption |-> <<>>] :
      ty \in {"chat", "text"}, t \in Texts}
  \cup {[type |-> "image", body |-> NoText, mediaUrl |-> <<>>, caption |-> c] :
      c \in {<<>>, <<"c">>}}
  \cup {[type |-> "sticker", body |-> NoText, mediaUrl |-> <<>>, caption |-> <<>>]}

\* the same with the replies addressed to the participant
WppSubjectReplyToParticipant(p) ==
  LET sender_jid == p.from
      is_group == Contains(sender_jid, AtGUs) \/ p.isGroupMsg
      sender_id == IF Contains(sender_jid, <<"@">>) THEN BeforeAt(sender_jid)
                   ELSE sender_jid
      participant == IF p.author # <<>> THEN p.author ELSE p.participant
      participant_number ==
        IF participant # <<>> THEN BeforeAt(participant)
        ELSE IF p.sender_obj_id # <<>> THEN BeforeAt(p.sender_obj_id)
        ELSE sender_id
  IN  [ whitelist_number |-> IF is_group THEN participant_number ELSE sender_id,
        reply_to         |-> IF is_group THEN participant_number ELSE sender_jid,
        is_group         |-> is_group,
        group_name       |-> IF is_group THEN <<"Group">> ELSE <<>> ]

\* whitelist_number, reply_to, is_group and group_name of a body
WppSubject(p) ==
  LET sender_jid == p.from
      is_group == Contains(sender_jid, AtGUs) \/ p.isGroupMsg
      sender_id == IF Contains(sender_jid, <<"@">>) THEN BeforeAt(sender_jid)
                   ELSE sender_jid
      participant == IF p.author # <<>> THEN p.author ELSE p.participant
      participant_number ==
        IF participant # <<>> THEN BeforeAt(participant)
        ELSE IF p.sender_obj_id # <<>> THEN BeforeAt(p.sender_obj_id)
        ELSE sender_id
  IN  [ whitelist_number |-> IF is_group THEN participant_number ELSE sender_id,
        reply_to         |-> sender_jid,
        is_group         |-> is_group,
        group_name       |-> IF is_group THEN <<"Group">> ELSE <<>> ]

\* the same with the event marker not looked at
WppWebhookAnyEvent ==
  /\ pc = Queued("WPP")
  /\ gateway' = "WPP"
  /\ remaining' = 0
  /\ authSubject' = None
  /\ authResult' = "unset"
  /\ args' = None
  /\ started' = 0
  /\ ResetRun
  /\ \E has_data \in BOOLEAN, event \in {"message", "onMessage", "ack"},
        wook \in {"message", "absent"} :
       LET marker == IF has_data THEN event
                     ELSE IF wook # "absent" THEN wook ELSE event
           known == marker \in {"message", "onMessage"}
       IN  /\ msg_data' = Message(known, 1)
           /\ routerStatus' = "none"
           /\ pc' = <<"wpp", "sender">>
  /\ UNCHANGED <<envVars, httpStatus, processed, sheets_service>>

\* process_wpp_webhook_data up to the choice of msg_data: the payload
\* structure (nested under "data", or flat) and the event marker
WppWebhook ==
  /\ pc = Queued("WPP")
  /\ gateway' = "WPP"
  /\ remaining' = 0
  /\ authSubject' = None
  /\ authResult' = "unset"
  /\ args' = None
  /\ started' = 0
  /\ ResetRun
  /\ \E has_data \in BOOLEAN, event \in {"message", "onMessage", "ack"},
        wook \in {"message", "absent"} :
       LET marker == IF has_data THEN event
                     ELSE IF wook # "absent" THEN wook ELSE event
           known == marker \in {"message", "onMessage"}
       IN  /\ msg_data' = Message(known, 1)
           /\ IF ~known
              THEN routerStatus' = "ignored" /\ pc' = Idle
              ELSE routerStatus' = "none" /\ pc' = <<"wpp", "sender">>
  /\ UNCHANGED <<envVars, httpStatus, processed, sheets_service>>

\* the WPPConnect whitelist check with every sender let through
WppAuthorizeAll ==
  /\ pc = <<"wpp", "sender">>
  /\ \E p \in WppEnvelopes :
       /\ msg_data' = [msg_data EXCEPT !.from = p.from,
                                       !.isGroupMsg = p.isGroupMsg,
                                       !.author = p.author,
                                       !.participant = p.participant,
                                       !.sender_obj_id = p.sender_obj_id]
       /\ IF p.from = <<>>
          THEN /\ routerStatus' = "error"
               /\ pc' = Idle
               /\ UNCHANGED <<authSubject, authResult, args>>
          ELSE LET subj == WppSubject(p)
                   ok == is_whitelisted(subj.whitelist_number)
               IN  /\ authSubject' = Str(subj.whitelist_number)
                   /\ authResult' = BoolStr(ok)
                   /\ routerStatus' = "none"
                   /\ pc' = <<"wpp", "dispatch">>
                   /\ args' = CallArgs(subj.reply_to, NoText, <<>>, subj.is_group,
                                       subj.group_name)
  /\ UNCHANGED <<envVars, httpStatus, processed, sheets_service, gateway, remaining, started, response,
                 b2b_data, drive_result, sends, downloads, classifyCalls, rows, appendCalls,
                 caught, propagated>>

\* the sender of the message and the whitelist check
WppAuthorize ==
  /\ pc = <<"wpp", "sender">>
  /\ \E p \in WppEnvelopes :
       /\ msg_data' = [msg_data EXCEPT !.from = p.from,
                                       !.isGroupMsg = p.isGroupMsg,
                                       !.author = p.author,
                                       !.participant = p.participant,
                                       !.sender_obj_id = p.sender_obj_id]
       /\ IF p.from = <<>>
          THEN /\ routerStatus' = "error"
               /\ pc' = Idle
               /\ UNCHANGED <<authSubject, authResult, args>>
          ELSE LET subj == WppSubject(p)
                   ok == is_whitelisted(subj.whitelist_number)
               IN  /\ authSubject' = Str(subj.whitelist_number)
                   /\ authResult' = BoolStr(ok)
                   /\ routerStatus' = IF ok THEN "none" ELSE "success"
                   /\ pc' = IF ok THEN <<"wpp", "dispatch">> ELSE Idle
                   /\ args' = IF ok
                              THEN CallArgs(subj.reply_to, NoText, <<>>, subj.is_group,
                                            subj.group_name)
                              ELSE None
  /\ UNCHANGED <<envVars, httpStatus, processed, sheets_service, gateway, remaining, started, response,
                 b2b_data, drive_result, sends, downloads, classifyCalls, rows, appendCalls,
                 caught, propagated>>

\* the message's type decides the call
WppDispatch ==
  /\ pc = <<"wpp", "dispatch">>
  /\ \E c \in WppContents, snet \in WppNet :
       /\ msg_data' = [msg_data EXCEPT !.type = c.type, !.caption = c.caption]
       /\ IF c.type \in {"ptt", "audio"}
          THEN IF c.mediaUrl # <<>>
               THEN /\ args' = [args EXCEPT !.audio_url = c.mediaUrl]
                    /\ pc' = <<"pvn", "start">>
                    /\ started' = started + 1
                    /\ UNCHANGED <<sends, routerStatus>>
               ELSE /\ args' = args
                    /\ SendLogged("no_media_url", <<>>)
                    /\ pc' = Idle
                    /\ started' = started
                    /\ routerStatus' = IF send_wpp_message(snet) = "raise"
                                       THEN "error" ELSE "success"
          ELSE IF c.type \in {"chat", "text"}
          THEN IF c.body.s # <<>>
               THEN /\ args' = [args EXCEPT !.text = c.body]
                    /\ pc' = <<"ptm", "start">>
                    /\ started' = started + 1
                    /\ UNCHANGED <<sends, routerStatus>>
               ELSE /\ args' = args
                    /\ pc' = Idle
                    /\ started' = started
                    /\ routerStatus' = "success"
                    /\ UNCHANGED sends
          ELSE IF c.type = "image" /\ c.caption # <<>>
          THEN /\ args' = [args EXCEPT
                             !.text = [s |-> <<"[Image] ">> \o c.caption, is_str |-> TRUE]]
               /\ pc' = <<"ptm", "start">>
               /\ started' = started + 1
               /\ UNCHANGED <<sends, routerStatus>>
          ELSE /\ args' = args
               /\ pc' = Idle
               /\ started' = started
               /\ routerStatus' = "success"
               /\ UNCHANGED sends
  /\ processed' = IF started' > started
                  THEN Append(processed, [gateway |-> gateway, wamid |-> args'.wamid])
                  ELSE processed
  /\ UNCHANGED <<envVars, httpStatus, sheets_service, gateway, remaining, authSubject,
                 authResult, response, b2b_data, drive_result, downloads,
                 classifyCalls, rows, appendCalls, caught, propagated>>

process_wpp_webhook_data ==
  \/ WppWebhook
  \/ WppAuthorize
  \/ WppDispatch

----------------------------------------------------------------------------
(* The POST handlers: routers/meta_router.py, routers/wpp_router.py *)

\* what reading and decoding the request body does
Bodies == {"read_error", "invalid_json", "json"}


\* the verify tokens the GET handler accepts
VerifyTokens == {<<"evolution">>, <<"assaf123">>}

\* verify_meta_webhook with the mode not looked at
verify_meta_webhook_anymode(mode, token, challenge) ==
  IF token # None /\ token.str \in VerifyTokens
  THEN [status |-> 200, content |-> challenge]
  ELSE [status |-> 403, content |-> Str(<<"Verification failed">>)]

\* verify_meta_webhook: the query parameters are Str(s), or None when absent
verify_meta_webhook(mode, token, challenge) ==
  IF mode = Str(<<"subscribe">>) /\ token # None /\ token.str \in VerifyTokens
  THEN [status |-> 200, content |-> challenge]
  ELSE [status |-> 403, content |-> Str(<<"Verification failed">>)]

\* the handler with an undecodable body answered by a client error
handle_webhook_strict(gw) ==
  /\ pc = Idle
  /\ Len(processed) < MaxRuns
  /\ \E body \in Bodies :
       IF body = "json"
       THEN /\ pc' = Queued(gw)
            /\ httpStatus' = 200
       ELSE /\ pc' = Idle
            /\ httpStatus' = 400
  /\ UNCHANGED <<envVars, processed, routerVars, sheets_service, response, b2b_data,
                 drive_result, sends, downloads, classifyCalls, rows,
                 appendCalls, caught, propagated, routerStatus>>

\* the handler of one gateway: the body is read and decoded, the worker is
\* added as a background task, and the response is built before it runs
handle_webhook(gw) ==
  /\ pc = Idle
  /\ Len(processed) < MaxRuns
  /\ \E body \in Bodies :
       pc' = IF body = "json" THEN Queued(gw) ELSE Idle
  /\ httpStatus' = 200
  /\ UNCHANGED <<envVars, processed, routerVars, sheets_service, response, b2b_data,
                 drive_result, sends, downloads, classifyCalls, rows,
                 appendCalls, caught, propagated, routerStatus>>

handle_meta_webhook == handle_webhook("Meta")

handle_wpp_webhook == handle_webhook("WPP")

----------------------------------------------------------------------------
(* The program: one background worker at a time takes a webhook body *)

Next ==
  \/ handle_meta_webhook
  \/ handle_wpp_webhook
  \/ process_meta_webhook_data
  \/ process_wpp_webhook_data
  \/ process_text_message
  \/ process_voice_note


Spec == Init /\ [][Next]_vars

\* the program started with the registered client and no override list.
\* process_text_message and process_voice_note are straight-line synchronous
\* code: a call that has been made keeps executing its next statement
InitLive ==
  /\ Init
  /\ clientsFile # <<>>
  /\ envWhitelist = <<>>

SpecLive ==
  /\ InitLive
  /\ [][Next]_vars
  /\ WF_vars(process_text_message)
  /\ WF_vars(process_voice_note)

----------------------------------------------------------------------------
(* The program with the registry file edited while it runs: between two    *)
(* webhook bodies the file gets the other of the two registries            *)

InitEdit ==
  /\ Init
  /\ envWhitelist = <<>>

\* CLIENTS_FILE is rewritten from outside the process; _client_names, loaded
\* at import, is not touched
RegistryEditIdle ==
  /\ pc = Idle
  /\ \E registry \in Registries \ {clientsFile} : clientsFile' = registry
  /\ UNCHANGED <<envWhitelist, client_names, spreadsheetId, sheets_service, pc,
                 httpStatus, processed, routerVars, response, b2b_data, drive_result,
                 sends, downloads, classifyCalls, rows, appendCalls, caught,
                 propagated, routerStatus>>

SpecEdit == InitEdit /\ [][Next \/ RegistryEditIdle]_vars

----------------------------------------------------------------------------
(* is_whitelisted on its own: the registry, the override list and the      *)
(* candidate are drawn from bounded sets and the function is applied       *)

\* registry and override entries: the strings of at most MaxKeyLen characters
EntryStrings == StringsUpTo(MaxKeyLen)

InitAuth ==
  /\ clientsFile \in {<<>>} \cup {<<[phone |-> k, name |-> <<"N">>]>> : k \in EntryStrings}
  /\ envWhitelist \in {<<>>} \cup {<<k>> : k \in EntryStrings \ {<<>>}}
  /\ client_names = clientsFile
  /\ spreadsheetId = FALSE
  /\ sheets_service = "unset"
  /\ pc = <<"auth", "call">>
  /\ gateway = "none"
  /\ remaining = 0
  /\ authSubject \in {Str(c) : c \in StringsUpTo(MaxLen)}
  /\ authResult = "unset"
  /\ args = None
  /\ msg_data = None
  /\ started = 0
  /\ response = None
  /\ b2b_data = None
  /\ drive_result = None
  /\ sends = <<>>
  /\ downloads = <<>>
  /\ classifyCalls = 0
  /\ rows = <<>>
  /\ caught = FALSE
  /\ propagated = FALSE
  /\ routerStatus = "none"
  /\ httpStatus = 0
  /\ appendCalls = 0
  /\ processed = <<>>

\* one call is_whitelisted(candidate)
AuthCall ==
  /\ pc = <<"auth", "call">>
  /\ authResult' = BoolStr(is_whitelisted(authSubject.str))
  /\ pc' = <<"auth", "done">>
  /\ UNCHANGED <<envVars, httpStatus, processed, sheets_service, gateway, remaining, authSubject, args,
                 msg_data, started, response, b2b_data, drive_result, sends, downloads,
                 classifyCalls, rows, appendCalls, caught, propagated, routerStatus>>

\* the registry file is edited between two calls: its identifier is removed,
\* or an identifier is added to the empty registry
EditedKey == <<"2">>

RegistryEdit ==
  /\ pc = <<"auth", "done">>
  /\ clientsFile' = IF clientsFile # <<>> THEN <<>>
                    ELSE <<[phone |-> EditedKey, name |-> <<"N">>]>>
  /\ authResult' = "unset"
  /\ pc' = <<"auth", "call">>
  /\ UNCHANGED <<envWhitelist, client_names, spreadsheetId, sheets_service,
                 httpStatus, processed, gateway, remaining, authSubject, args, msg_data, started, response,
                 b2b_data,
                 drive_result, sends, downloads, classifyCalls, rows, appendCalls, caught,
                 propagated, routerStatus>>

SpecAuth == InitAuth /\ [][AuthCall \/ RegistryEdit]_vars

----------------------------------------------------------------------------
(* parse_b2b_json_response / get_gemini_b2b_response on their own: the     *)
(* response text is drawn from a bounded set and the function is applied   *)

\* most characters of free text in a drawn response
MaxGarbage == 2

OptionalTok(toks) == {<<>>} \cup {<<t>> : t \in toks}

\* JSON objects: each required field absent or present with one of its values
ObjectTexts ==
  { <<"{">> \o i \o p \o sm \o a \o l \o <<"}">> :
      i \in OptionalTok({"i_NewTask", "i_Revision", "i_Inquiry", "i_Urgent",
                         "i_Noise", "i_Bogus"}),
      p \in OptionalTok({"p_High", "p_Medium", "p_Low", "p_Bogus"}),
      sm \in OptionalTok({"s_Empty", "s_Short", "s_Long"}),
      a \in OptionalTok({"a_Empty", "a_Some"}),
      l \in OptionalTok({"l_Hebrew"}) }

\* JSON documents that are not objects
NonObjectTexts == { <<"[", "]">>, <<"7">>, <<"null">>, <<"\"x\"">> }

\* free text, and text a JSON decoder rejects
GarbageTexts ==
  {[i \in 1..n |-> "x"] : n \in (0..MaxGarbage) \cup {RawResponseCap + 1}}
  \cup {<<"{", "x">>, <<"{", "i_Urgent">>, <<"i_Urgent", "}">>, <<"7", "x">>}

ParseTexts ==
  { lead \o open \o body \o close \o trail :
      lead \in {<<>>, <<" ">>},
      open \in {<<>>, FenceJson, Fence},
      body \in ObjectTexts \cup NonObjectTexts \cup GarbageTexts,
      close \in {<<>>, Fence},
      trail \in {<<>>, <<" ">>} }

InitParse ==
  /\ clientsFile = <<>>
  /\ envWhitelist = <<>>
  /\ client_names = clientsFile
  /\ spreadsheetId = FALSE
  /\ sheets_service = "unset"
  /\ pc = <<"parse", "call">>
  /\ gateway = "none"
  /\ remaining = 0
  /\ authSubject = None
  /\ authResult = "unset"
  /\ args = None
  /\ msg_data = None
  /\ started = 0
  /\ response \in {[outcome |-> "ok", text |-> t] : t \in ParseTexts}
  /\ b2b_data = None
  /\ drive_result = None
  /\ sends = <<>>
  /\ downloads = <<>>
  /\ classifyCalls = 0
  /\ rows = <<>>
  /\ caught = FALSE
  /\ propagated = FALSE
  /\ routerStatus = "none"
  /\ httpStatus = 0
  /\ appendCalls = 0
  /\ processed = <<>>

\* one call get_gemini_b2b_response(...) whose HTTP call returned the drawn
\* text: b2b_data is what the caller receives, caught whether an exception
\* left parse_b2b_json_response (and was caught by get_gemini_b2b_response)
ParseCall ==
  /\ pc = <<"parse", "call">>
  /\ b2b_data' = get_gemini_b2b_response(response)
  /\ caught' = (parse_b2b_json_response(response.text).exc # "none")
  /\ classifyCalls' = classifyCalls + 1
  /\ pc' = <<"parse", "done">>
  /\ UNCHANGED <<envVars, httpStatus, processed, sheets_service, gateway, remaining, authSubject,
                 authResult, args, msg_data, started, response, drive_result, sends,
                 downloads,
                 rows, appendCalls, propagated, routerStatus>>

SpecParse == InitParse /\ [][ParseCall]_vars

----------------------------------------------------------------------------
(* build_reply_message on its own: classification dicts with each field   *)
(* present or absent, and the two kinds of save result                    *)

ReplyData ==
  { MembersToDict(i \o p \o s \o a, EmptyDict) :
      i \in {<<>>} \cup {<<t>> : t \in {"i_NewTask", "i_Revision", "i_Inquiry",
                                        "i_Urgent", "i_Noise", "i_Bogus"}},
      p \in {<<>>} \cup {<<t>> : t \in {"p_High", "p_Medium", "p_Low", "p_Bogus"}},
      s \in {<<>>, <<"s_Empty">>, <<"s_Short">>},
      a \in {<<>>, <<"a_Empty">>, <<"a_Some">>} }

ReplyResults ==
  { [success |-> TRUE, doc_url |-> "sheet url"],
    [success |-> FALSE, error |-> "append failed"] }

InitReply ==
  /\ clientsFile = <<>>
  /\ envWhitelist = <<>>
  /\ client_names = clientsFile
  /\ spreadsheetId = FALSE
  /\ sheets_service = "unset"
  /\ pc = <<"reply", "call">>
  /\ gateway = "none"
  /\ remaining = 0
  /\ authSubject = None
  /\ authResult = "unset"
  /\ args = None
  /\ msg_data = None
  /\ started = 0
  /\ response = None
  /\ b2b_data \in ReplyData
  /\ drive_result \in ReplyResults
  /\ sends = <<>>
  /\ downloads = <<>>
  /\ classifyCalls = 0
  /\ rows = <<>>
  /\ caught = FALSE
  /\ propagated = FALSE
  /\ routerStatus = "none"
  /\ httpStatus = 0
  /\ appendCalls = 0
  /\ processed = <<>>

\* one call build_reply_message(b2b_data, drive_result); its value is kept
\* as the body of a logged reply
ReplyCall ==
  /\ pc = <<"reply", "call">>
  /\ sends' = <<[kind |-> "final", body |-> build_reply_message(b2b_data, drive_result)]>>
  /\ pc' = <<"reply", "done">>
  /\ UNCHANGED <<envVars, httpStatus, processed, sheets_service, gateway, remaining,
                 authSubject, authResult, args, msg_data, started, response, b2b_data,
                 drive_result, downloads, classifyCalls, rows, appendCalls, caught,
                 propagated, routerStatus>>

SpecReply == InitReply /\ [][ReplyCall]_vars

----------------------------------------------------------------------------
(* send_meta_message / send_wpp_message on their own: a bounded series of  *)
(* calls, each with what the provider call does                            *)

InitSend ==
  /\ clientsFile = <<>>
  /\ envWhitelist = <<>>
  /\ client_names = clientsFile
  /\ spreadsheetId = FALSE
  /\ sheets_service = "unset"
  /\ pc = <<"send", "call">>
  /\ gateway = "none"
  /\ remaining = 0
  /\ authSubject = None
  /\ authResult = "unset"
  /\ args = None
  /\ msg_data = None
  /\ started = 0
  /\ response = None
  /\ b2b_data = None
  /\ drive_result = None
  /\ sends = <<>>
  /\ downloads = <<>>
  /\ classifyCalls = 0
  /\ rows = <<>>
  /\ caught = FALSE
  /\ propagated = FALSE
  /\ routerStatus = "none"
  /\ httpStatus = 0
  /\ appendCalls = 0
  /\ processed = <<>>

\* one call of a gateway's send function: the log keeps the gateway, what the
\* provider call did and what the function returned ("raise": it raised)
SendCall ==
  /\ pc = <<"send", "call">>
  /\ Len(sends) < MaxSends
  /\ \E gw \in {"Meta", "WPP"} :
       \E net \in SendNet(gw) :
         /\ gateway' = gw
         /\ sends' = Append(sends, [gateway |-> gw, net |-> net,
                                    returned |-> send_reply_func(gw, net)])
  /\ UNCHANGED <<envVars, httpStatus, processed, sheets_service, pc, remaining,
                 authSubject, authResult, args, msg_data, started, response, b2b_data,
                 drive_result, downloads, classifyCalls, rows, appendCalls, caught,
                 propagated, routerStatus>>

SpecSend == InitSend /\ [][SendCall]_vars

----------------------------------------------------------------------------
(* verify_meta_webhook on its own: the query parameters of a GET request   *)
(* are drawn from bounded sets and the handler is applied                  *)

VerifyModes == {None, Str(<<"subscribe">>), Str(<<"SUBSCRIBE">>), Str(<<"unsubscribe">>)}

VerifyTokenInputs ==
  {None, Str(<<>>), Str(<<"evolution">>), Str(<<"assaf123">>), Str(<<"Evolution">>),
   Str(<<"secret">>)}

Challenges == {None, Str(<<"1">>), Str(<<"4", "2">>)}

InitVerify ==
  /\ clientsFile = <<>>
  /\ envWhitelist = <<>>
  /\ client_names = clientsFile
  /\ spreadsheetId = FALSE
  /\ sheets_service = "unset"
  /\ pc = <<"verify", "call">>
  /\ gateway = "Meta"
  /\ remaining = 0
  /\ authSubject = None
  /\ authResult = "unset"
  /\ args \in [mode : VerifyModes, token : VerifyTokenInputs, challenge : Challenges]
  /\ msg_data = None
  /\ started = 0
  /\ response = None
  /\ b2b_data = None
  /\ drive_result = None
  /\ sends = <<>>
  /\ downloads = <<>>
  /\ classifyCalls = 0
  /\ rows = <<>>
  /\ caught = FALSE
  /\ propagated = FALSE
  /\ routerStatus = "none"
  /\ httpStatus = 0
  /\ appendCalls = 0
  /\ processed = <<>>

\* one GET request: args holds its query parameters, response the HTTP
\* response the handler produces
VerifyCall ==
  /\ pc = <<"verify", "call">>
  /\ response' = verify_meta_webhook(args.mode, args.token, args.challenge)
  /\ httpStatus' = response'.status
  /\ pc' = <<"verify", "done">>
  /\ UNCHANGED <<envVars, processed, sheets_service, gateway, remaining, authSubject,
                 authResult, args, msg_data, started, b2b_data, drive_result, sends,
                 downloads, classifyCalls, rows, appendCalls, caught, propagated,
                 routerStatus>>

SpecVerify == InitVerify /\ [][VerifyCall]_vars

----------------------------------------------------------------------------
(* Properties *)

\* the handling of the current message is over: the worker is back in the
\* router loop or has returned (and the next body may be waiting)
RunOver == pc = Idle \/ pc = <<"meta", "loop">> \/ pc[1] = "queued"

\* a process_* call is in progress
InProcess == pc[1] \in {"ptm", "pvn"}

Kinds(log) == {log[i].kind : i \in 1..Len(log)}

CountKind(log, kind) == Cardinality({i \in 1..Len(log) : log[i].kind = kind})


\* C1: process_text_message and process_voice_note never let an exception
\* reach their caller, and a failure caught by their except clause is
\* answered with exactly one error reply, the last send of the run.
C1_NeverPropagates ==
  /\ propagated = FALSE
  /\ (caught /\ ~InProcess) =>
        /\ CountKind(sends, "error") = 1
        /\ sends[Len(sends)].kind = "error"
  /\ ~caught => "error" \notin Kinds(sends)

\* a voice run whose download raised has ended with the error reply
C1_Witness ==
  /\ RunOver
  /\ caught
  /\ downloads = <<"raise">>
  /\ sends[Len(sends)].kind = "error"

\* C2 as stated: the send callback is called once or not at all in a run,
\* and not at all only when the sender is unauthorized.
C2_Original ==
  /\ Len(sends) <= 1
  /\ (RunOver /\ authResult # "unset" /\ sends = <<>>) => authResult = "false"

\* C2 amended: a run makes at most two send calls: the acknowledgment followed
\* by exactly one further reply, or one reply alone (an error before the
\* acknowledgment, or the router's no-media-URL notice), or none.  It makes
\* none whenever the sender is unauthorized; an authorized run that makes none
\* was dropped before the acknowledgment, with no download, classification
\* or row.
C2_AtMostAckAndReply ==
  /\ Len(sends) <= 2
  /\ CountKind(sends, "ack") <= 1
  /\ ("ack" \in Kinds(sends)) => sends[1].kind = "ack"
  /\ (RunOver /\ Len(sends) = 2) => sends[1].kind = "ack" /\ sends[2].kind # "ack"
  /\ (RunOver /\ Len(sends) = 1) => sends[1].kind \in {"error", "no_media_url"}
  /\ authResult \in {"false", "raise"} => sends = <<>>
  /\ (RunOver /\ authResult = "true" /\ sends = <<>>) =>
        downloads = <<>> /\ classifyCalls = 0 /\ rows = <<>>

\* an authorized run has ended with the acknowledgment and the final reply
C2_Witness ==
  /\ RunOver
  /\ authResult = "true"
  /\ Len(sends) = 2
  /\ sends[1].kind = "ack"
  /\ sends[2].kind = "final"

\* C3: after is_whitelisted has returned false for a message, the worker makes
\* no send, no download, no classification call and appends no row for it,
\* and enters neither the dispatch nor a process_* call.
C3_UnauthorizedIsSilent ==
  authResult = "false" =>
    /\ sends = <<>>
    /\ downloads = <<>>
    /\ classifyCalls = 0
    /\ rows = <<>>
    /\ RunOver

\* a WPPConnect group message of an unregistered participant was dropped
C3_Witness ==
  /\ authResult = "false"
  /\ gateway = "WPP"
  /\ authSubject = Str(UnknownNumber)
  /\ pc = Idle
  /\ routerStatus = "success"

\* C4: every result the classifier returns has its intent among the five
\* known values and its priority among the three known values.
C4_EnumsValid ==
  (pc = <<"parse", "done">> /\ b2b_data # None) =>
    /\ b2b_data["intent"] \in {"New Task", "Revision", "Inquiry", "Urgent", "Noise"}
    /\ b2b_data["priority"] \in {"High", "Medium", "Low"}

\* a decoded object with unknown intent and priority was corrected
C4_Witness ==
  /\ pc = <<"parse", "done">>
  /\ response.text = <<"{", "i_Bogus", "p_Bogus", "s_Short", "}">>
  /\ b2b_data # None
  /\ b2b_data["intent"] = "Noise"
  /\ b2b_data["priority"] = "Medium"

\* the text decodes to a JSON object
WellFormedObject(text) ==
  LET decoded == json_loads(CleanResponse(text))
  IN  decoded.ok /\ decoded.kind = "object"

\* C5 as stated: when the Vertex call returned a text that is not a
\* well-formed classification object, the run still has a classification
\* result and sends no classification-failed reply.
C5_MalformedAbsorbed ==
  (/\ response # None
   /\ response.outcome = "ok"
   /\ ~WellFormedObject(response.text)) =>
     /\ b2b_data # None
     /\ "analyze_failed" \notin Kinds(sends)

\* C6: when get_gemini_b2b_response returned None, the run has sent the
\* classification-failed reply and is over, with no persistence call, no row
\* and no classification reply.
C6_NoResultTerminates ==
  (response # None /\ b2b_data = None) =>
    /\ RunOver
    /\ sends[Len(sends)].kind = "analyze_failed"
    /\ "final" \notin Kinds(sends)
    /\ drive_result = None
    /\ rows = <<>>

\* a run ended on a Vertex HTTP error
C6_Witness ==
  /\ RunOver
  /\ response # None
  /\ response.outcome = "http_error"
  /\ sends[Len(sends)].kind = "analyze_failed"

\* C7: after save_b2b_task returned success=false the run still sends the
\* final reply, which carries intent, priority and summary of the
\* classification and ends with the failure notice instead of the link.
C7_SaveFailureStillReplies ==
  (RunOver /\ drive_result # None /\ ~drive_result.success) =>
    LET last == sends[Len(sends)]
        body == last.body
    IN  /\ last.kind = "final"
        /\ body[1].part = "header"
        /\ body[1].intent = b2b_data["intent"]
        /\ body[1].priority = b2b_data["priority"]
        /\ body[2].part = "summary"
        /\ body[2].text = b2b_data["summary"]
        /\ body[Len(body)].part = "save_failed"
        /\ \A i \in 1..Len(body) : body[i].part # "saved"

\* a run whose append call failed has ended with the final reply
C7_Witness ==
  /\ RunOver
  /\ spreadsheetId
  /\ sheets_service = "ready"
  /\ drive_result # None
  /\ ~drive_result.success
  /\ rows = <<>>
  /\ sends[Len(sends)].kind = "final"

\* the audio download of the run failed
DownloadFailed == downloads # <<>> /\ downloads[Len(downloads)] # "status_200"

\* C8 as stated: every failed audio download, a non-200 status or a transport
\* error, ends the run with the could-not-download reply and without
\* classification or persistence.
C8_Original ==
  (RunOver /\ DownloadFailed) =>
    /\ sends[Len(sends)].kind = "download_failed"
    /\ classifyCalls = 0
    /\ drive_result = None
    /\ rows = <<>>

\* C8 amended: a failed audio download ends the run without classification or
\* persistence; a non-200 status is answered with the could-not-download
\* reply, a transport error (requests.get raising) with the error reply of the
\* except clause.
C8_DownloadFailureTerminates ==
  DownloadFailed =>
    /\ classifyCalls = 0
    /\ drive_result = None
    /\ rows = <<>>
    /\ pc \notin {<<"pvn", "classify">>, <<"pvn", "save">>, <<"pvn", "reply">>}
    /\ RunOver =>
         /\ Len(sends) = 2
         /\ sends[2].kind = IF downloads[Len(downloads)] = "status_other"
                            THEN "download_failed" ELSE "error"

\* a run ended on a non-200 download with the could-not-download reply
C8_Witness ==
  /\ RunOver
  /\ downloads = <<"status_other">>
  /\ sends[Len(sends)].kind = "download_failed"

\* C9: a run that has sent the acknowledgment does not end before a further
\* reply has been sent.
C9_AckIsFollowedByReply ==
  (RunOver /\ "ack" \in Kinds(sends)) =>
    /\ Len(sends) >= 2
    /\ sends[Len(sends)].kind \in {"final", "analyze_failed", "download_failed", "error"}

\* an acknowledged text run ended with the classification-failed reply
C9_Witness ==
  /\ RunOver
  /\ args # None
  /\ args.audio_url = <<>>
  /\ Len(sends) = 2
  /\ sends[1].kind = "ack"
  /\ sends[2].kind = "analyze_failed"

\* a is a suffix of b
IsSuffixOf(a, b) == \E n \in 0..Len(b) : a = [i \in 1..(Len(b) - n) |-> b[n + i]]

\* the digits of s, in order
RECURSIVE DigitsOf(_)
DigitsOf(s) ==
  IF s = <<>> THEN <<>>
  ELSE IF Head(s) \in {"0", "1", "2", "3", "4", "5", "6", "7", "8", "9"}
       THEN <<Head(s)>> \o DigitsOf(Tail(s))
       ELSE DigitsOf(Tail(s))

\* C10: is_whitelisted returns true whenever the digits of the candidate are a
\* suffix of the digits of a registered client identifier, or the other way
\* round.
C10_SuffixMatchAuthorizes ==
  pc = <<"auth", "done">> =>
    ((\E i \in 1..Len(clientsFile) :
        LET a == DigitsOf(authSubject.str)
            b == DigitsOf(clientsFile[i].phone)
        IN  IsSuffixOf(a, b) \/ IsSuffixOf(b, a))
     => authResult = "true")

\* a candidate with a prefix and a non-digit is authorized by a shorter key
C10_Witness ==
  /\ pc = <<"auth", "done">>
  /\ authSubject = Str(<<"+", "1", "2">>)
  /\ Keys(clientsFile) = {<<"2">>}
  /\ envWhitelist = <<>>
  /\ authResult = "true"

\* the decision the registry and the override list call for: some entry's
\* digits are a suffix of the candidate's digits, or the other way round
Authorizes(registry, overrides, candidate) ==
  \E e \in {registry[i].phone : i \in 1..Len(registry)}
           \cup {overrides[i] : i \in 1..Len(overrides)} :
    \/ IsSuffixOf(DigitsOf(e), DigitsOf(candidate))
    \/ IsSuffixOf(DigitsOf(candidate), DigitsOf(e))

\* C11: every call of is_whitelisted decides according to the registry file
\* as it is at the call, whatever edits were made to it since the start.
C11_RegistryRereadEachCheck ==
  pc = <<"auth", "done">> =>
    (authResult = "true") = Authorizes(clientsFile, envWhitelist, authSubject.str)

\* a check made after the only identifier was removed rejects a candidate the
\* registry authorized at the start
C11_Witness ==
  /\ pc = <<"auth", "done">>
  /\ client_names = <<[phone |-> <<"2">>, name |-> <<"N">>]>>
  /\ clientsFile = <<>>
  /\ envWhitelist = <<>>
  /\ authSubject = Str(<<"1", "2">>)
  /\ authResult = "false"

\* the entries of WHITELIST_NUMBERS
Overrides == {envWhitelist[i] : i \in 1..Len(envWhitelist)}

\* the digits of one are a suffix of the digits of the other
SuffixRelated(a, b) ==
  \/ IsSuffixOf(DigitsOf(a), DigitsOf(b))
  \/ IsSuffixOf(DigitsOf(b), DigitsOf(a))

\* C12 as stated: an override entry contained anywhere in the candidate
\* authorizes it.
C12_Original ==
  pc = <<"auth", "done">> =>
    ((\E e \in Overrides : Contains(authSubject.str, e)) => authResult = "true")

\* C12 amended: the override list is matched like the registry, by digit
\* suffix in either direction: an override entry so related to the candidate
\* authorizes it, and with an empty registry nothing else does.
C12_OverrideMatchedBySuffix ==
  pc = <<"auth", "done">> =>
    /\ (\E e \in Overrides : SuffixRelated(e, authSubject.str)) => authResult = "true"
    /\ (authResult = "true" /\ clientsFile = <<>>) =>
          \E e \in Overrides : SuffixRelated(e, authSubject.str)

\* an override entry at the start of the candidate did not authorize it
C12_Witness ==
  /\ pc = <<"auth", "done">>
  /\ clientsFile = <<>>
  /\ envWhitelist = << <<"1">> >>
  /\ authSubject = Str(<<"1", "2">>)
  /\ authResult = "false"

\* a is the first n characters of b, or all of b when b is shorter
IsFirstOf(a, b, n) ==
  /\ Len(a) = (IF Len(b) < n THEN Len(b) ELSE n)
  /\ \A i \in 1..Len(a) : a[i] = b[i]

\* the JSON decoder was given the text and rejected it (an empty text is
\* answered before the decoder is tried)
DecodingFailed(text) == text # <<>> /\ ~json_loads(CleanResponse(text)).ok

HasMember(text, key) ==
  \E i \in 1..Len(text) : text[i] \in DOMAIN MemberTok /\ MemberTok[text[i]][1] = key

\* the value of that member
MemberValue(text, key) ==
  LET i == CHOOSE j \in 1..Len(text) :
             text[j] \in DOMAIN MemberTok /\ MemberTok[text[j]][1] = key
  IN  MemberTok[text[i]][2]

\* the response was decoded to an object and a result returned
Decoded == pc = <<"parse", "done">> /\ WellFormedObject(response.text)

\* C14 as stated: a decoded object without priority yields priority Medium,
\* one without summary or client_action yields an empty value for it, with
\* parse_error false.
C14_Original ==
  Decoded =>
    /\ b2b_data # None
    /\ b2b_data["parse_error"] = FALSE
    /\ ~HasMember(response.text, "priority") => b2b_data["priority"] = "Medium"
    /\ ~HasMember(response.text, "summary") => b2b_data["summary"] = <<>>
    /\ ~HasMember(response.text, "client_action") => b2b_data["client_action"] = <<>>

\* C14 amended: a decoded object without a required field gets the fallback's
\* value for that field only (intent Noise, priority Low, summary "Could not
\* parse message", client_action "Manual review required"); the summary and
\* client_action it does hold are kept, and parse_error is false.
C14_MissingFieldFromFallback ==
  Decoded =>
    /\ b2b_data # None
    /\ b2b_data["parse_error"] = FALSE
    /\ ~HasMember(response.text, "intent") => b2b_data["intent"] = "Noise"
    /\ ~HasMember(response.text, "priority") => b2b_data["priority"] = "Low"
    /\ b2b_data["summary"] =
         (IF HasMember(response.text, "summary")
          THEN MemberValue(response.text, "summary")
          ELSE <<"Could not parse message">>)
    /\ b2b_data["client_action"] =
         (IF HasMember(response.text, "client_action")
          THEN MemberValue(response.text, "client_action")
          ELSE <<"Manual review required">>)

\* an object holding only intent and summary was completed from the fallback
C14_Witness ==
  /\ pc = <<"parse", "done">>
  /\ response.text = <<"{", "i_Urgent", "s_Short", "}">>
  /\ b2b_data # None
  /\ b2b_data["intent"] = "Urgent"
  /\ b2b_data["priority"] = "Low"
  /\ b2b_data["summary"] = ShortSummary
  /\ b2b_data["client_action"] = <<"Manual review required">>
  /\ b2b_data["parse_error"] = FALSE

\* C15: a decoded object with an unknown intent or priority has that field
\* alone replaced (intent by Noise, priority by Medium); every other member of
\* the object is returned as decoded, parse_error is false and nothing of the
\* fallback result is put in.
C15_EnumCorrectedFieldByField ==
  Decoded =>
    /\ b2b_data # None
    /\ b2b_data["parse_error"] = FALSE
    /\ HasMember(response.text, "intent") =>
         b2b_data["intent"] =
           (IF MemberValue(response.text, "intent")
                 \in {"New Task", "Revision", "Inquiry", "Urgent", "Noise"}
            THEN MemberValue(response.text, "intent") ELSE "Noise")
    /\ HasMember(response.text, "priority") =>
         b2b_data["priority"] =
           (IF MemberValue(response.text, "priority") \in {"High", "Medium", "Low"}
            THEN MemberValue(response.text, "priority") ELSE "Medium")
    /\ \A k \in {"summary", "client_action", "original_language"} :
         HasMember(response.text, k) => b2b_data[k] = MemberValue(response.text, k)
    /\ \A k \in {"original_language", "transcription", "raw_response"} :
         ~HasMember(response.text, k) => k \notin DOMAIN b2b_data

\* an object with unknown intent and priority kept its other members
C15_Witness ==
  /\ pc = <<"parse", "done">>
  /\ response.text = <<"{", "i_Bogus", "p_Bogus", "s_Short", "a_Some", "l_Hebrew", "}">>
  /\ b2b_data # None
  /\ b2b_data["intent"] = "Noise"
  /\ b2b_data["priority"] = "Medium"
  /\ b2b_data["summary"] = ShortSummary
  /\ b2b_data["client_action"] = SomeAction
  /\ b2b_data["original_language"] = "Hebrew"
  /\ b2b_data["parse_error"] = FALSE

\* C16 as stated: every result the classifier returns has a summary of at
\* most 200 characters.
C16_Original ==
  (pc = <<"parse", "done">> /\ b2b_data # None) => Len(b2b_data["summary"]) <= 200

\* C16 amended: a result has a summary of at most 200 characters when it is
\* the fallback result (empty text or failed decoding); the summary of a
\* decoded object is returned as decoded, whatever its length.
C16_SummaryCutOnFallbackOnly ==
  (pc = <<"parse", "done">> /\ b2b_data # None) =>
    /\ ~WellFormedObject(response.text) => Len(b2b_data["summary"]) <= 200
    /\ (WellFormedObject(response.text) /\ HasMember(response.text, "summary")) =>
          Len(b2b_data["summary"]) = Len(MemberValue(response.text, "summary"))

\* a decoded summary of 201 characters was returned whole
C16_Witness ==
  /\ pc = <<"parse", "done">>
  /\ WellFormedObject(response.text)
  /\ HasMember(response.text, "summary")
  /\ b2b_data # None
  /\ Len(b2b_data["summary"]) = 201

\* the current run is a voice run
VoiceRun == args # None /\ args.audio_url # <<>>

\* C17: within a run the stages come in the order authorization, audio
\* download (voice runs only), classification call, persistence call, final
\* reply, each at most once: a stage is reached only when the stages before
\* it have returned, the persistence call is made only with a classification
\* result, and the final reply is sent only after the persistence call.
C17_StagesInOrder ==
  /\ Len(downloads) <= 1 /\ classifyCalls <= 1 /\ CountKind(sends, "final") <= 1
  /\ (InProcess \/ sends # <<>> \/ downloads # <<>> \/ classifyCalls > 0) =>
        authResult = "true"
  /\ downloads # <<>> => VoiceRun /\ sends[1].kind = "ack"
  /\ (pc = <<"pvn", "download">> \/ downloads # <<>>) =>
        classifyCalls = 0 \/ downloads = <<"status_200">>
  /\ (InProcess /\ pc[2] \in {"start", "download", "classify"}) =>
        /\ classifyCalls = 0
        /\ drive_result = None
        /\ rows = <<>>
        /\ "final" \notin Kinds(sends)
  /\ (VoiceRun /\ (pc = <<"pvn", "classify">> \/ classifyCalls > 0)) =>
        downloads = <<"status_200">>
  /\ (InProcess /\ pc[2] = "save") =>
        /\ classifyCalls = 1 /\ b2b_data # None
        /\ drive_result = None /\ rows = <<>>
        /\ "final" \notin Kinds(sends)
  /\ (drive_result # None \/ rows # <<>>) => classifyCalls = 1 /\ b2b_data # None
  /\ (InProcess /\ pc[2] = "reply") =>
        drive_result # None /\ "final" \notin Kinds(sends)
  /\ "final" \in Kinds(sends) => drive_result # None /\ b2b_data # None

\* a voice run went through every stage
C17_Witness ==
  /\ RunOver
  /\ VoiceRun
  /\ authResult = "true"
  /\ downloads = <<"status_200">>
  /\ classifyCalls = 1
  /\ b2b_data # None
  /\ drive_result # None
  /\ Len(sends) = 2
  /\ sends[2].kind = "final"
  /\ ~caught

\* the WPPConnect worker has taken the sender of a group message
WppGroupMessage ==
  /\ gateway = "WPP"
  /\ msg_data # None
  /\ msg_data.from # <<>>
  /\ (msg_data.isGroupMsg \/ Contains(msg_data.from, AtGUs))

\* the JID of the participant the message names: author, else participant,
\* else sender.id; <<>> when it names none
ParticipantJid(m) ==
  IF m.author # <<>> THEN m.author
  ELSE IF m.participant # <<>> THEN m.participant
  ELSE m.sender_obj_id

\* every reply of the run went to the message's from JID
RepliesToFrom ==
  /\ \A i \in 1..Len(sends) : sends[i].to = msg_data.from
  /\ args # None => args.sender_id = msg_data.from

NothingHappened ==
  /\ ~InProcess
  /\ sends = <<>>
  /\ downloads = <<>>
  /\ classifyCalls = 0
  /\ rows = <<>>

\* the router has read the type of the message and it is neither text nor
\* audio
OtherType ==
  /\ msg_data # None
  /\ msg_data.type \notin {"none", "text", "chat", "audio", "ptt"}

\* the router worker has returned (the next body may be waiting)
WorkerReturned == pc = Idle \/ pc[1] = "queued"

\* the routers end with a status, whatever the body
RouterNeverRaises ==
  /\ routerStatus \in {"none", "ignored", "success", "error"}
  /\ authResult = "raise" => (WorkerReturned /\ routerStatus = "error")
  /\ (msg_data # None /\ ~msg_data.known) =>
        (WorkerReturned /\ routerStatus = "ignored" /\ NothingHappened)

\* C19 as stated: the routers never raise, and a body that is not a text or
\* audio message of a known structure triggers no pipeline run, no
\* classification, no row and no reply.
C19_Original ==
  /\ RouterNeverRaises
  /\ OtherType => NothingHappened

\* C19 amended: the routers never raise; a body of an unknown structure or
\* event is ignored, and so is a message that is neither text nor audio,
\* except a WPPConnect image with a caption, whose caption is run through
\* process_text_message as the text "[Image] <caption>".
C19_UnrecognizedIgnored ==
  /\ RouterNeverRaises
  /\ OtherType =>
       IF gateway = "WPP" /\ msg_data.type = "image" /\ msg_data.caption # <<>>
       THEN /\ started = 1
            /\ (InProcess \/ RunOver)
            /\ args.text = [s |-> <<"[Image] ">> \o msg_data.caption, is_str |-> TRUE]
            /\ downloads = <<>>
       ELSE NothingHappened

\* a WPPConnect image with a caption was classified and answered
C19_Witness ==
  /\ RunOver
  /\ gateway = "WPP"
  /\ OtherType
  /\ msg_data.type = "image"
  /\ msg_data.caption = <<"c">>
  /\ classifyCalls = 1
  /\ Len(sends) = 2
  /\ sends[2].kind = "final"

\* C20 as stated: one webhook body starts at most one process_text_message /
\* process_voice_note run.
C20_Original == started <= 1

\* C20 amended: a WPPConnect body starts at most one run; a Meta body starts
\* at most one run for each message it holds, the loop visiting every message
\* of the body.
C20_AtMostOneRunPerMessage ==
  msg_data # None =>
    /\ gateway = "WPP" => started <= 1
    /\ gateway = "Meta" => started <= msg_data.messages - remaining
    /\ (InProcess /\ gateway = "Meta") => started >= 1

\* the second message of a Meta body is being run
C20_Witness ==
  /\ gateway = "Meta"
  /\ msg_data # None
  /\ msg_data.messages = 2
  /\ remaining = 0
  /\ started = 2
  /\ RunOver
  /\ Len(sends) = 2

\* C21: every POST to a gateway's webhook is answered with 200, whether the
\* body decodes or not; the response exists before the background task
\* starts, and nothing the task does afterwards (an error status, a caught
\* or escaped exception) changes it.
C21_WebhookAlwaysOk ==
  /\ httpStatus \in {0, 200}
  /\ httpStatus = 0 =>
       (pc = Idle /\ processed = <<>> /\ routerStatus = "none" /\ started = 0)
  /\ pc[1] = "queued" => httpStatus = 200
  /\ (routerStatus = "error" \/ caught \/ propagated) => httpStatus = 200

\* the body was answered with 200 and its background task then failed
C21_Witness ==
  /\ httpStatus = 200
  /\ WorkerReturned
  /\ routerStatus = "error"

\* the Meta router has dispatched a text message of an authorized sender
MetaTextDispatched ==
  /\ gateway = "Meta"
  /\ authResult = "true"
  /\ msg_data # None
  /\ msg_data.type = "text"

\* C22: message ids are not used to drop repeated deliveries: every text
\* message of an authorized sender the Meta router dispatches starts a run
\* of its own, whatever was processed before, and a run that reaches its
\* final reply has made its own classification call.
C22_NoDeduplication ==
  MetaTextDispatched =>
    /\ started >= 1
    /\ processed # <<>>
    /\ processed[Len(processed)] = [gateway |-> "Meta", wamid |-> args.wamid]
    /\ (InProcess \/ RunOver)
    /\ (RunOver /\ "final" \in Kinds(sends)) => classifyCalls = 1

\* the same message id came in two Meta bodies of one message each, and the
\* second delivery was classified, appended and answered like the first
C22_Witness ==
  /\ MetaTextDispatched
  /\ RunOver
  /\ msg_data.messages = 1
  /\ started = 1
  /\ processed = <<[gateway |-> "Meta", wamid |-> Wamid],
                   [gateway |-> "Meta", wamid |-> Wamid]>>
  /\ classifyCalls = 1
  /\ appendCalls = 1
  /\ Len(rows) = 1
  /\ Kinds(sends) = {"ack", "final"}

\* C23: nothing is retried: within one run the audio download, the
\* classification call and the append call are each made at most once, also
\* when the call failed.
C23_NothingRetried ==
  /\ Len(downloads) <= 1
  /\ classifyCalls <= 1
  /\ appendCalls <= 1
  /\ Len(rows) <= appendCalls

\* a voice run whose append call failed: one download, one classification
\* call, one append call, and the final reply sent
C23_Witness ==
  /\ RunOver
  /\ downloads = <<"status_200">>
  /\ classifyCalls = 1
  /\ appendCalls = 1
  /\ rows = <<>>
  /\ drive_result = [success |-> FALSE, error |-> "append failed"]
  /\ "final" \in Kinds(sends)

\* C24: a run that has started reaches a terminal state (it returns to its
\* router silently, after a failure reply, or after the final reply),
\* provided no external call stays without a return; there is no state in
\* which a run stops short of one.
C24_RunTerminates == ([](pc # Blocked)) => (InProcess ~> RunOver)

\* a text run that ended silently: the text was blank
C24_Witness ==
  /\ RunOver
  /\ started = 1
  /\ args # None
  /\ args.text = [s |-> <<" ">>, is_str |-> TRUE]
  /\ sends = <<>>
  /\ ~caught

\* C25: the audio download gives up by itself: a run that is at the
\* download reaches a terminal state, also when the media server never
\* responds.
C25_DownloadTimesOut == (pc = <<"pvn", "download">>) ~> RunOver

\* C26: a voice run whose audio reference is an inline data URI obtains the
\* audio by decoding it and goes on to the classification call: once the run
\* is over, no exception was caught and the classification call was made.
C26_DataUriDecoded ==
  (gateway = "WPP" /\ RunOver /\ started = 1 /\ args # None /\ args.audio_url = DataUri) =>
     (~caught /\ classifyCalls = 1)

\* C27 as stated: every appended row has the ten columns Timestamp, Sender,
\* Source, Context, Intent, Priority, Summary, Action Items, Message ID,
\* Media Link.
C27_Original == \A i \in 1..Len(rows) : Len(rows[i]) = 10 /\ rows[i][5] = b2b_data.intent

\* C27 amended: every row save_b2b_task builds has exactly nine columns, in
\* the order Timestamp, Client Name, Phone Number, Intent, Priority, Summary
\* (its first 500 characters), Action Items, Media Link, Channel, whichever of
\* the action items and the media link are empty or absent.
C27_RowHasNineColumns ==
  \A i \in 1..Len(rows) :
    LET r == rows[i]
    IN  /\ Len(r) = 9
        /\ r[1] = "now"
        /\ r[2] = get_client_name(args.sender_id)
        /\ r[3] = args.sender_id
        /\ r[4] = b2b_data.intent
        /\ r[5] = b2b_data.priority
        /\ r[6] = Prefix(b2b_data.summary, RowSummaryCap)
        /\ r[7] = Get(b2b_data, "client_action", <<>>)
        /\ r[8] = args.audio_url
        /\ r[9] = b2b_data.channel

\* a row of a text message without action items and without media
C27_Witness ==
  /\ Len(rows) = 1
  /\ Len(rows[1]) = 9
  /\ rows[1][7] = <<>>
  /\ rows[1][8] = <<>>
  /\ args.text.s = <<"h", "i">>

\* C28: the channel column of every appended row names the gateway whose
\* router processed the message: Meta or WPPConnect.
C28_ChannelNamesGateway ==
  \A i \in 1..Len(rows) :
    rows[i][Len(rows[i])] = IF gateway = "Meta" THEN "Meta" ELSE "WPPConnect"

\* C29: save_b2b_task never raises and makes at most one append call.  Its
\* result says success only when that one call went through (and then the
\* row is in the sheet); it says failure, with an error text, when the
\* service is not initialized or the spreadsheet id is not set (no append
\* call is made in either case) and when the append call failed.
C29_SaveContract ==
  drive_result # None =>
    /\ drive_result.success \in BOOLEAN
    /\ appendCalls <= 1
    /\ drive_result.success <=> (appendCalls = 1 /\ Len(rows) = 1)
    /\ ~drive_result.success => ("error" \in DOMAIN drive_result /\ rows = <<>>)
    /\ sheets_service # "ready" =>
         (drive_result = [success |-> FALSE, error |-> "Sheets service not initialized"]
          /\ appendCalls = 0)
    /\ (sheets_service = "ready" /\ ~spreadsheetId) =>
         (drive_result = [success |-> FALSE, error |-> "SPREADSHEET_ID not set"]
          /\ appendCalls = 0)
    /\ caught => "final" \in Kinds(sends)

\* save_b2b_task returned the failure of an unset spreadsheet id without
\* having called append
C29_Witness ==
  /\ drive_result = [success |-> FALSE, error |-> "SPREADSHEET_ID not set"]
  /\ sheets_service = "ready"
  /\ appendCalls = 0
  /\ pc[2] = "reply"

\* the icon the reply starts with
ExpectedIcon(intent) ==
  CASE intent = "New Task" -> "NEW"
    [] intent = "Revision" -> "CYCLE"
    [] intent = "Inquiry"  -> "QUESTION"
    [] intent = "Urgent"   -> "SIREN"
    [] intent = "Noise"    -> "SPEECH"
    [] OTHER               -> "MEMO"

\* C30: build_reply_message returns, for every classification dict and save
\* result, the same composition: a header with the icon of the intent (the
\* default icon for an intent outside the table), the intent and the
\* priority; the summary; an action line exactly when client_action is not
\* empty; and as last line the link when the save succeeded, the failure
\* notice otherwise.
C30_ReplyComposition ==
  pc = <<"reply", "done">> =>
    LET body == sends[1].body
        has_action == Get(b2b_data, "client_action", <<>>) # <<>>
    IN  /\ body = build_reply_message(b2b_data, drive_result)
        /\ Len(body) = IF has_action THEN 4 ELSE 3
        /\ body[1].part = "header"
        /\ body[1].emoji = ExpectedIcon(Get(b2b_data, "intent", "Noise"))
        /\ body[1].intent = Get(b2b_data, "intent", "Received")
        /\ body[1].priority = Get(b2b_data, "priority", "Medium")
        /\ body[2] = [part |-> "summary",
                      text |-> Get(b2b_data, "summary", <<"Message logged">>)]
        /\ has_action <=> (\E i \in 1..Len(body) : body[i].part = "action")
        /\ has_action => body[3] = [part |-> "action", text |-> b2b_data["client_action"]]
        /\ body[Len(body)].part =
             IF drive_result.success THEN "saved" ELSE "save_failed"

\* a reply for an intent outside the table, with an action line, after a
\* successful save
C30_Witness ==
  /\ pc = <<"reply", "done">>
  /\ "intent" \in DOMAIN b2b_data
  /\ b2b_data["intent"] = "Complaint"
  /\ sends[1].body[1].emoji = "MEMO"
  /\ Len(sends[1].body) = 4
  /\ sends[1].body[3].part = "action"
  /\ sends[1].body[4].part = "saved"

\* the provider call of a send went through
ProviderAccepted(call) ==
  IF call.gateway = "Meta" THEN call.net = "http_200"
  ELSE call.net = "http_200_success"

\* C31: send_meta_message and send_wpp_message never raise: each call
\* returns a bool, true exactly when the provider call succeeded, and false
\* for a missing credential, a status other than 200, an unexpected response
\* body and a connection error.
C31_SendNeverRaises ==
  \A i \in 1..Len(sends) :
    /\ sends[i].returned \in {"true", "false"}
    /\ (sends[i].returned = "true") <=> ProviderAccepted(sends[i])

\* a Meta send hit a connection error and a WPPConnect send got a 200 with an
\* unexpected body: both returned false
C31_Witness ==
  /\ Len(sends) = 2
  /\ sends[1] = [gateway |-> "Meta", net |-> "conn_error", returned |-> "false"]
  /\ sends[2] = [gateway |-> "WPP", net |-> "http_200_other", returned |-> "false"]

C33_VerifyEchoesOnlyOnMatch ==
  pc = <<"verify", "done">> =>
    LET matches == /\ args.mode = Str(<<"subscribe">>)
                   /\ args.token \in {Str(<<"evolution">>), Str(<<"assaf123">>)}
    IN  /\ matches => (response.status = 200 /\ response.content = args.challenge)
        /\ ~matches => (response.status = 403 /\ response.content # args.challenge)
        /\ httpStatus = response.status

\* a request with an accepted token and a mode other than "subscribe" was
\* rejected
C33_Witness ==
  /\ pc = <<"verify", "done">>
  /\ args.mode = Str(<<"unsubscribe">>)
  /\ args.token = Str(<<"assaf123">>)
  /\ args.challenge = Str(<<"4", "2">>)
  /\ response.status = 403

\* C34: is_whitelisted fails closed: with an empty registry (the file is
\* missing, unreadable or holds no entry) and an empty override list it
\* returns false for every candidate.
C34_FailsClosed ==
  (pc = <<"auth", "done">> /\ load_clients = <<>> /\ envWhitelist = <<>>) =>
     authResult = "false"

\* a candidate of digits was refused with nothing configured
C34_Witness ==
  /\ pc = <<"auth", "done">>
  /\ clientsFile = <<>>
  /\ envWhitelist = <<>>
  /\ authSubject = Str(<<"1", "2">>)
  /\ authResult = "false"

\* C35: authorization needs a match of digits: a candidate without any digit
\* is never authorized, and an entry without any digit authorizes nobody (a
\* candidate is authorized only through an entry that has digits).
C35_NoDigitsNeverAuthorized ==
  (pc = <<"auth", "done">> /\ authResult = "true") =>
     /\ DigitsOf(authSubject.str) # <<>>
     /\ \E e \in Keys(clientsFile) \cup Overrides :
          DigitsOf(e) # <<>> /\ SuffixRelated(e, authSubject.str)

\* C36: the messages of a Meta body are handled one by one in payload order,
\* and none of them keeps the later ones from being handled: when the worker
\* has returned, the loop has visited every message of the body.
C36_EveryMessageVisited ==
  (gateway = "Meta" /\ WorkerReturned /\ msg_data # None /\ msg_data.known) =>
     remaining = 0

\* C37: an audio message of an authorized sender always gets a reply, on
\* either gateway: once its handling is over, the send callback has been
\* called at least once for it, also when no media URL could be obtained.
C37_AudioAlwaysAnswered ==
  (RunOver /\ authResult = "true" /\ msg_data # None
     /\ msg_data.type \in {"audio", "ptt"}) =>
     sends # <<>>

\* the message at hand is a text message whose text is empty or blank
BlankText ==
  /\ msg_data # None
  /\ msg_data.type \in {"text", "chat"}
  /\ args # None
  /\ args.text.is_str
  /\ Strip(args.text.s) = <<>>

\* C38: for a text message of an authorized sender whose text is empty or
\* only whitespace, process_text_message returns before the acknowledgment:
\* no send, no classification call and no persistence call is made.
C38_BlankTextIsDropped ==
  BlankText =>
    /\ sends = <<>>
    /\ classifyCalls = 0
    /\ appendCalls = 0
    /\ rows = <<>>
    /\ ~caught
    /\ InProcess => pc = <<"ptm", "start">>

\* a Meta text message with an empty body started a run that ended at once
C38_Witness ==
  /\ BlankText
  /\ gateway = "Meta"
  /\ args.text.s = <<>>
  /\ started = 1
  /\ processed # <<>>
  /\ pc = <<"meta", "loop">>
  /\ sends = <<>>

\* C39: a row is appended only by a run whose sender was authorized and
\* whose classification call returned a result, and a run appends at most
\* one row; a run that ended silently, with a failed download or with a
\* failed classification has appended none.
C39_RowsOnlyFromClassifiedRuns ==
  /\ Len(rows) <= 1
  /\ rows # <<>> =>
       /\ authResult = "true"
       /\ started >= 1
       /\ classifyCalls = 1
       /\ b2b_data # None
       /\ drive_result # None /\ drive_result.success
  /\ authResult # "true" => rows = <<>>
  /\ BlankText => rows = <<>>
  /\ DownloadFailed => rows = <<>>
  /\ (classifyCalls = 1 /\ b2b_data = None /\ pc[2] # "classify") => rows = <<>>

\* the one row of a WPPConnect voice run
C39_Witness ==
  /\ gateway = "WPP"
  /\ RunOver
  /\ authResult = "true"
  /\ downloads = <<"status_200">>
  /\ Len(rows) = 1
  /\ rows[1][8] = HttpUrl
  /\ "final" \in Kinds(sends)

\* get_client_name's lookup made in the registry file as it is now
RegistryName(phone_number) ==
  IF phone_number = <<>> THEN <<>>
  ELSE LET normalized == StripNonDigits(phone_number)
           exact == {i \in 1..Len(clientsFile) : clientsFile[i].phone = normalized}
       IN  IF exact # {}
           THEN clientsFile[CHOOSE i \in exact : TRUE].name
           ELSE FirstPartialMatch(clientsFile, normalized)

C40_AuthorizationFollowsEdit ==
  (pc[2] = "reply" /\ authSubject # None) =>
     authResult = BoolStr(is_whitelisted(authSubject.str))

====
